---- MODULE Spec2Model ----
(***************************************************************************)
(* Game loop and wave / level progression of the arcade shooter            *)
(* (src/src/components/Game.tsx with Player, Enemy and Bullet).            *)
(*                                                                         *)
(* The component is a React function component.  Its state is              *)
(*   - gameState (useState): the latest state, every queued functional     *)
(*     updater applied in order (variable gs);                             *)
(*   - the refs (enemiesRef, currentWaveRef, difficultyConfigRef,          *)
(*     waveTimeoutRef, levelProgressTimeoutRef, gameJustStartedRef,        *)
(*     enableProgressionTimerRef);                                         *)
(*   - the closures of the two effects that are re-created when their      *)
(*     dependency list changes: the main game effect (variable main: the   *)
(*     gameState it captured, its Player, its bullet array, its pending    *)
(*     animation frame) and the observer effect (variable obs);            *)
(*   - the pending setTimeout callbacks (variable timers), each with the   *)
(*     arguments its closure captured and the time left in milliseconds.   *)
(* Time advances from one timer deadline to the next (Tick); callbacks     *)
(* that are due run before time advances.                                  *)
(***************************************************************************)
EXTENDS Integers, Sequences, FiniteSets, TLC

\* ---------------------------------------------------------------- bounds
MaxLevel == 2
MaxScore == 1000
MaxInputs == 1

\* ------------------------------------------------------ program constants
INITIAL_HEALTH == 3
GraceDelay == 3000
LastWaveDelay == 2000
ProgressDelay == 1000
AdvanceDelay == 2500
AdvanceSpawnDelay == 100
ObserverPeriod == 500
ObserverRecheckDelay == 100
NewGameDelay == 100
InvulnerableTime == 2000
EnemyKillScore == 100

Min(a, b) == IF a < b THEN a ELSE b
Max(a, b) == IF a > b THEN a ELSE b

\* ------------------------------------------------- getDifficultyConfig(L)
\* a configuration whose waves hold a single enemy
singleEnemyWave(level) == 1

\* Math.floor(level * 1.2) = (12 * level) \div 10
baseEnemiesPerWave(level) ==
  IF level = 1 THEN 5 ELSE Min(15, 5 + ((12 * level) \div 10))

\* Math.floor(level / 1.5) = (2 * level) \div 3
maxWaves(level) == Min(6, 1 + ((2 * level) \div 3))

waveDelay(level) == Max(2000, 5000 - (level - 1) * 300)

\* formationTypes.slice(0, min(6, 1 + floor(level / 2)))
formationTypes == <<"linear", "v-shape", "arc", "zigzag", "diamond", "random">>

\* every formation at every level
everyFormation(level) == { formationTypes[i] : i \in 1..6 }

availableFormations(level) ==
  { formationTypes[i] : i \in 1..Min(6, 1 + (level \div 2)) }

\* number of spawnEnemy calls createFormation makes for enemyCount enemies
diamondSize(enemyCount) == Min(4, enemyCount \div 3)

createFormation(formation, enemyCount) ==
  IF formation = "diamond"
  THEN Min(enemyCount, diamondSize(enemyCount) * diamondSize(enemyCount))
  ELSE enemyCount

\* ------------------------------------------------------------------ state
VARIABLES
  mounted,                   \* <Game/> has been rendered and its effects ran
  storage,                   \* localStorage 'asteroidGameLevel' (0: absent)
  gs,                        \* gameState
  rendered,                  \* dependency values of the last committed render
  uiDirty,                   \* canvasScale got a new object (resize)
  enemiesRef,                \* enemiesRef.current.length
  currentWaveRef,
  difficultyConfigRef,       \* level whose configuration is in force
  gameJustStartedRef,
  waveTimeoutRef,            \* handle is non-null
  levelProgressTimeoutRef,   \* handle is non-null
  enableProgressionTimerRef, \* handle is non-null
  main,                      \* closure of the main game effect
  obs,                       \* closure of the observer effect
  timers,                    \* pending setTimeout callbacks, in arming order
  hitWindow,                 \* ms left of the 2000 ms after the last hit taken at health > 1
  inputs                     \* number of user inputs taken so far

\* The entities of one main effect run, for the frame-by-frame view of
\* gameLoop (FrameSpec below); the progression view (Spec) keeps only their
\* number in enemiesRef and main.
VARIABLES
  bullets,                   \* the bullets array of the main game effect
  enemies,                   \* enemiesRef.current, one record per Enemy
  powerUps,                  \* the powerUps array of the main game effect
  player,                    \* the Player object
  loop,                      \* position of gameLoop in its frame
  event,                     \* what the last step of gameLoop did
  shieldWindow               \* ms left of the 5000 ms after the last Shield pickup

entityVars == <<bullets, enemies, powerUps, player, loop, event, shieldWindow>>

\* The two objects of one bounding-box test and what the test returned, for
\* the view of checkCollision on its own (CollisionSpec below).
VARIABLES collision

\* One createFormation call and the spawnEnemy calls it has made so far, for
\* the view of the formations on their own (FormationSpec below).
VARIABLES formationRun

\* One Enemy and one Player on their own, for the views of Enemy.update and
\* of the Player methods (EnemySpec and PlayerSpec below).
VARIABLES enemyObj, playerObj

\* what the progression view leaves alone
detailVars == <<entityVars, collision, formationRun, enemyObj, playerObj>>

vars == <<mounted, storage, gs, rendered, uiDirty, enemiesRef, currentWaveRef,
          difficultyConfigRef, gameJustStartedRef, waveTimeoutRef,
          levelProgressTimeoutRef, enableProgressionTimerRef, main, obs,
          timers, hitWindow, inputs, bullets, enemies, powerUps, player, loop,
          event, shieldWindow, collision, formationRun, enemyObj, playerObj>>

\* useState initializer
InitialGameState ==
  [score |-> 0, isGameOver |-> FALSE, isPaused |-> FALSE,
   health |-> INITIAL_HEALTH, victory |-> FALSE, level |-> 1]

\* gameState.victory as seen by handleLevelComplete and spawnEnemyWave: both
\* are useCallback(..., []) closures over the first render
FirstRenderVictory == InitialGameState.victory

Deps(g) == [level |-> g.level, isPaused |-> g.isPaused,
            isGameOver |-> g.isGameOver, victory |-> g.victory]

\* the fields of gameState the closures of the main game effect read
Snap(g) == [level |-> g.level, isPaused |-> g.isPaused, isGameOver |-> g.isGameOver,
            victory |-> g.victory, health |-> g.health]

\* new Player(...) and the empty bullet, power-up, particle and explosion
\* arrays of a main effect run (enemyBullets: bullets holds an enemy bullet)
NewMain(g, raf) ==
  [snap |-> Snap(g), raf |-> raf, invulnerable |-> FALSE, invulnerableTimer |-> 0,
   enemyBullets |-> FALSE]

NoTimers == << >>

\* new Player(...): no shield, not invulnerable
NewPlayer == [invulnerable |-> FALSE, hasShield |-> FALSE]

\* gameLoop is between two frames
BetweenFrames == [phase |-> "idle", k |-> 0, n |-> 0, spent |-> {}]

NoEvent == [kind |-> "none", pb |-> 0, eb |-> 0, pu |-> "none"]

\* the arrays a main effect run starts with
NoEntities ==
  /\ bullets = << >>
  /\ enemies = << >>
  /\ powerUps = << >>
  /\ player = NewPlayer
  /\ loop = BetweenFrames
  /\ event = NoEvent
  /\ shieldWindow = 0

\* no bounding-box test is under way
NoCollisionTest == [done |-> FALSE]

\* no createFormation call is under way
NoFormationRun == [on |-> FALSE]
NoObject == [on |-> FALSE]

\* a pending timer: kind, time left, captured level and wave arguments, the
\* ref that currently holds its handle ("none" when no ref does), and whether
\* startNewGame has run since it was armed
Timer(k, rem, a, w, ref) ==
  [k |-> k, rem |-> rem, a |-> a, w |-> w, ref |-> ref, old |-> FALSE]

\* clearTimeout(ref.current)
ClearRef(ts, ref) == SelectSeq(ts, LAMBDA t : t.ref # ref)

\* ref.current = <new handle>: the timer held before is no longer reachable
Unhold(ts, ref) ==
  [i \in DOMAIN ts |-> IF ts[i].ref = ref THEN [ts[i] EXCEPT !.ref = "none"] ELSE ts[i]]

\* The mutable state the callbacks work on, as one record
Cur ==
  [gs |-> gs, storage |-> storage, enemies |-> enemiesRef,
   currentWave |-> currentWaveRef, cfg |-> difficultyConfigRef,
   justStarted |-> gameJustStartedRef, waveRef |-> waveTimeoutRef,
   progressRef |-> levelProgressTimeoutRef,
   enableRef |-> enableProgressionTimerRef, timers |-> timers]

Set(r) ==
  /\ gs' = r.gs
  /\ storage' = r.storage
  /\ enemiesRef' = r.enemies
  /\ currentWaveRef' = r.currentWave
  /\ difficultyConfigRef' = r.cfg
  /\ gameJustStartedRef' = r.justStarted
  /\ waveTimeoutRef' = r.waveRef
  /\ levelProgressTimeoutRef' = r.progressRef
  /\ enableProgressionTimerRef' = r.enableRef
  /\ timers' = r.timers

\* ---------------------------------------------------- handleLevelComplete
\* handleLevelComplete without its grace guard
handleLevelCompleteUnguarded(r, nextLevel) ==
  IF FirstRenderVictory THEN r
  ELSE [r EXCEPT
          !.storage = nextLevel,
          !.progressRef = FALSE,
          !.waveRef = FALSE,
          !.gs = [r.gs EXCEPT !.level = nextLevel, !.victory = TRUE],
          !.timers = Append(ClearRef(ClearRef(r.timers, "progress"), "wave"),
                            Timer("advance", AdvanceDelay, nextLevel, 0, "none"))]

handleLevelComplete(r, nextLevel) ==
  IF r.justStarted THEN r
  ELSE IF FirstRenderVictory THEN r
  ELSE [r EXCEPT
          !.storage = nextLevel,
          !.progressRef = FALSE,
          !.waveRef = FALSE,
          !.gs = [r.gs EXCEPT !.level = nextLevel, !.victory = TRUE],
          !.timers = Append(ClearRef(ClearRef(r.timers, "progress"), "wave"),
                            Timer("advance", AdvanceDelay, nextLevel, 0, "none"))]

\* --------------------------------------------------------- spawnEnemyWave
\* spawnEnemyWave without its max-wave guard
spawnEnemyWaveUnguarded(r, level, waveNumber, formation) ==
  LET config == r.cfg
      adjustedEnemyCount ==
        IF waveNumber = 0 /\ level = 1 THEN 5 ELSE baseEnemiesPerWave(config)
      spawned ==
        [r EXCEPT !.currentWave = waveNumber,
                  !.enemies = r.enemies + createFormation(formation, adjustedEnemyCount)]
  IN IF waveNumber < maxWaves(config) - 1
     THEN [spawned EXCEPT
             !.waveRef = TRUE,
             !.timers = Append(ClearRef(spawned.timers, "wave"),
                               Timer("wave", waveDelay(config), level,
                                     waveNumber + 1, "wave"))]
     ELSE [spawned EXCEPT
             !.timers = Append(spawned.timers,
                               Timer("lastWave", LastWaveDelay, level, 0, "none"))]

spawnEnemyWave(r, level, waveNumber, formation) ==
  LET config == r.cfg
      enemiesInThisWave == baseEnemiesPerWave(config)
      adjustedEnemyCount ==
        IF waveNumber = 0 /\ level = 1 THEN 5 ELSE enemiesInThisWave
      spawned ==
        [r EXCEPT !.currentWave = waveNumber,
                  !.enemies = r.enemies + createFormation(formation, adjustedEnemyCount)]
  IN IF waveNumber >= maxWaves(config)
     THEN IF r.enemies = 0 /\ ~FirstRenderVictory /\ ~r.justStarted
          THEN handleLevelComplete(r, level + 1)
          ELSE r
     ELSE IF waveNumber < maxWaves(config) - 1
          THEN [spawned EXCEPT
                  !.waveRef = TRUE,
                  !.timers = Append(ClearRef(spawned.timers, "wave"),
                                    Timer("wave", waveDelay(config), level,
                                          waveNumber + 1, "wave"))]
          ELSE [spawned EXCEPT
                  !.timers = Append(spawned.timers,
                                    Timer("lastWave", LastWaveDelay, level, 0, "none"))]

\* the formation spawnEnemyWave picks: linear for wave 0 of level 1,
\* otherwise any of the formations available at the level
FormationChoices(level, waveNumber) ==
  IF waveNumber = 0 /\ level = 1 THEN {"linear"} ELSE availableFormations(level)

\* -------------------------------------------------------- initializeLevel
initializeLevel(r, level) ==
  [r EXCEPT
     !.waveRef = FALSE,
     !.currentWave = 0,
     !.enemies = 0,
     !.cfg = level,
     !.gs = [r.gs EXCEPT !.victory = FALSE],
     !.timers = Append(ClearRef(r.timers, "wave"),
                       Timer("init0", 0, level, 0, "none"))]

\* ----------------------------------------------------- main game effect
\* cleanup of the main game effect
mainCleanup(r) ==
  [r EXCEPT
     !.enableRef = FALSE,
     !.waveRef = FALSE,
     !.progressRef = FALSE,
     !.timers = ClearRef(ClearRef(ClearRef(r.timers, "enable"), "wave"), "progress")]

\* body of the main game effect up to its return: both initializeLevel calls
\* and the grace timer (the first gameLoop() call finds the grace flag set and
\* no enemy or bullet, so it only requests the next frame)
mainSetup(r, level) ==
  LET r1 == [r EXCEPT !.waveRef = FALSE,
                      !.timers = ClearRef(r.timers, "wave"),
                      !.enemies = 0,
                      !.justStarted = TRUE]
      r2 == initializeLevel(r1, level)
      r3 == [r2 EXCEPT !.enableRef = TRUE,
                       !.timers = Append(Unhold(r2.timers, "enable"),
                                         Timer("graceMain", GraceDelay, 0, 0, "enable"))]
  IN initializeLevel(r3, level)

\* gameLoop() without its pause gate
LoopIgnoresPause(snap) == ~snap.isGameOver

\* gameLoop() returns without requesting a frame when paused or game over
LoopRuns(snap) == ~snap.isPaused /\ ~snap.isGameOver

\* ------------------------------------------------------------------ mount
Init ==
  /\ mounted = FALSE
  /\ storage \in 0..MaxLevel
  /\ gs = [InitialGameState EXCEPT !.level = 0]
  /\ rendered = Deps([InitialGameState EXCEPT !.level = 0])
  /\ uiDirty = FALSE
  /\ enemiesRef = 0
  /\ currentWaveRef = 0
  /\ difficultyConfigRef = 1
  /\ gameJustStartedRef = TRUE
  /\ waveTimeoutRef = FALSE
  /\ levelProgressTimeoutRef = FALSE
  /\ enableProgressionTimerRef = FALSE
  /\ main = NewMain([InitialGameState EXCEPT !.level = 0], FALSE)
  /\ obs = [snap |-> Deps([InitialGameState EXCEPT !.level = 0]), rem |-> 0]
  /\ timers = NoTimers
  /\ hitWindow = 0
  /\ inputs = 0
  /\ NoEntities
  /\ collision = NoCollisionTest
  /\ formationRun = NoFormationRun
  /\ enemyObj = NoObject /\ playerObj = NoObject

\* module load, first render and the effects of the first commit, in the
\* order they are declared
Mount ==
  /\ ~mounted
  /\ LET g0 == InitialGameState
         \* module load and mount effect remove the persisted level; the mount
         \* effect starts the grace window and its 3000 ms timer
         r0 == [Cur EXCEPT !.storage = 0, !.gs = g0, !.cfg = g0.level,
                           !.justStarted = TRUE, !.enableRef = TRUE,
                           !.currentWave = 0,
                           !.timers = Append(Cur.timers,
                                             Timer("graceMount", GraceDelay, 0, 0, "enable"))]
         \* first-load effect forces level 1
         r1 == [r0 EXCEPT !.gs = [r0.gs EXCEPT !.level = 1]]
     IN /\ Set(mainSetup(r1, g0.level))
        /\ main' = NewMain(g0, LoopRuns(g0))
        /\ obs' = [snap |-> Deps(g0), rem |-> ObserverPeriod]
        /\ rendered' = Deps(g0)
  /\ mounted' = TRUE
  /\ uiDirty' = TRUE
  /\ UNCHANGED <<hitWindow, inputs>>
  /\ UNCHANGED detailVars

\* ----------------------------------------------------------------- commit
CommitPending == mounted /\ (Deps(gs) # rendered \/ uiDirty)

\* React re-renders with the latest gameState and re-runs the effects whose
\* dependencies changed: cleanups first, then the bodies in declaration order
Commit ==
  /\ CommitPending
  /\ LET mainChanged == \/ gs.level # rendered.level
                        \/ gs.isPaused # rendered.isPaused
                        \/ gs.isGameOver # rendered.isGameOver
                        \/ uiDirty
         obsChanged == Deps(gs) # rendered
         r0 == IF mainChanged THEN mainCleanup(Cur) ELSE Cur
         r1 == IF gs.level # rendered.level THEN [r0 EXCEPT !.cfg = gs.level] ELSE r0
         r2 == IF mainChanged THEN mainSetup(r1, gs.level) ELSE r1
     IN /\ Set(r2)
        /\ main' = IF mainChanged THEN NewMain(gs, LoopRuns(gs)) ELSE main
        /\ obs' = IF obsChanged THEN [snap |-> Deps(gs), rem |-> ObserverPeriod] ELSE obs
  /\ rendered' = Deps(gs)
  /\ uiDirty' = FALSE
  /\ UNCHANGED <<mounted, hitWindow, inputs>>
  /\ UNCHANGED detailVars

\* -------------------------------------------------------- timer callbacks
RemoveAt(ts, i) == [j \in 1..(Len(ts) - 1) |-> IF j < i THEN ts[j] ELSE ts[j + 1]]

\* the three grace-expiry callbacks (mount effect, main game effect,
\* startNewGame): gameJustStartedRef.current = false
enableProgression(r) == [r EXCEPT !.justStarted = FALSE]

\* checkLastWaveTimer, armed by spawnEnemyWave after the last wave
checkLastWaveTimer(r, level) ==
  IF r.enemies = 0 /\ ~FirstRenderVictory
  THEN handleLevelComplete(r, level + 1)
  ELSE r

\* callback of levelProgressTimeoutRef; snapLevel is gameState.level of the
\* gameLoop closure that armed it (its gameState.victory was false then)
levelProgressCallback(r, snapLevel) ==
  LET r1 == IF ~r.justStarted THEN handleLevelComplete(r, snapLevel + 1) ELSE r
  IN [r1 EXCEPT !.progressRef = FALSE]

\* first callback of the advance sequence of handleLevelComplete (2500 ms)
advanceCallback(r, nextLevel) ==
  [r EXCEPT !.currentWave = 0,
            !.enemies = 0,
            !.cfg = nextLevel,
            !.timers = Append(r.timers,
                              Timer("advanceSpawn", AdvanceSpawnDelay, nextLevel, 0, "none"))]

\* nested callback of the advance sequence (100 ms later)
advanceSpawnCallback(r, nextLevel, formation) ==
  LET r1 == spawnEnemyWave(r, nextLevel, 0, formation)
  IN [r1 EXCEPT !.gs = [r1.gs EXCEPT !.victory = FALSE]]

\* the observer re-check passing the current level instead of the next one
observerRecheckSameLevel(r, snapLevel) ==
  IF r.enemies = 0 /\ ~r.justStarted
  THEN handleLevelComplete(r, snapLevel)
  ELSE r

\* 100 ms re-check armed by the observer poll; snapLevel is gameState.level of
\* the observer closure (its isPaused, isGameOver and victory were false)
observerRecheck(r, snapLevel) ==
  IF r.enemies = 0 /\ ~r.justStarted
  THEN handleLevelComplete(r, snapLevel + 1)
  ELSE r

\* the 100 ms callback of startNewGame; snapLevel is gameState.level of the
\* render in which the button was clicked
newGameCallback(r, snapLevel, formation) ==
  LET r1 == IF snapLevel # 1 THEN [r EXCEPT !.gs = [r.gs EXCEPT !.level = 1]] ELSE r
      r2 == spawnEnemyWave([r1 EXCEPT !.currentWave = 0], 1, 0, formation)
  IN [r2 EXCEPT !.timers = Append(r2.timers,
                                  Timer("graceNew", GraceDelay, 0, 0, "none"))]

runCallback(r, t, formation) ==
  CASE t.k \in {"graceMount", "graceMain", "graceNew"} -> enableProgression(r)
    [] t.k = "init0" -> spawnEnemyWave(r, t.a, 0, formation)
    [] t.k = "wave" -> spawnEnemyWave(r, t.a, t.w, formation)
    [] t.k = "lastWave" -> checkLastWaveTimer(r, t.a)
    [] t.k = "progress" -> levelProgressCallback(r, t.a)
    [] t.k = "advance" -> advanceCallback(r, t.a)
    [] t.k = "advanceSpawn" -> advanceSpawnCallback(r, t.a, formation)
    [] t.k = "observerRecheck" -> observerRecheck(r, t.a)
    [] t.k = "newGame" -> newGameCallback(r, t.a, formation)

\* level and wave a callback passes to spawnEnemyWave (for its formation)
SpawnArgs(t) ==
  CASE t.k = "wave" -> <<t.a, t.w>>
    [] t.k = "newGame" -> <<1, 0>>
    [] OTHER -> <<t.a, 0>>

\* the event loop runs a due setTimeout callback
TimerFire ==
  /\ mounted
  /\ \E i \in DOMAIN timers :
       /\ timers[i].rem = 0
       /\ \E formation \in FormationChoices(SpawnArgs(timers[i])[1], SpawnArgs(timers[i])[2]) :
            LET r == runCallback([Cur EXCEPT !.timers = RemoveAt(timers, i)],
                                 timers[i], formation)
            IN /\ r.gs.level <= MaxLevel
               /\ Set(r)
  /\ UNCHANGED <<mounted, rendered, uiDirty, main, obs, hitWindow, inputs>>
  /\ UNCHANGED detailVars

\* ---------------------------------------------------------- observer poll
\* one run of the setInterval callback of the observer effect
ObserverPoll ==
  /\ mounted
  /\ obs.rem = 0
  /\ obs' = [obs EXCEPT !.rem = ObserverPeriod]
  /\ LET isLastWave == currentWaveRef >= maxWaves(difficultyConfigRef) - 1
         hasActiveWaveTimeout == waveTimeoutRef
     IN IF /\ ~(obs.snap.isPaused \/ obs.snap.isGameOver \/ obs.snap.victory
                  \/ gameJustStartedRef)
           /\ enemiesRef = 0
           /\ (isLastWave \/ ~hasActiveWaveTimeout)
           /\ ~obs.snap.victory
           /\ ~levelProgressTimeoutRef
           /\ ~gameJustStartedRef
        THEN timers' = Append(timers, Timer("observerRecheck", ObserverRecheckDelay,
                                            obs.snap.level, 0, "none"))
        ELSE timers' = timers
  /\ UNCHANGED <<mounted, storage, gs, rendered, uiDirty, enemiesRef, currentWaveRef,
                 difficultyConfigRef, gameJustStartedRef, waveTimeoutRef,
                 levelProgressTimeoutRef, enableProgressionTimerRef, main,
                 hitWindow, inputs>>
  /\ UNCHANGED detailVars

\* --------------------------------------------------------------- gameLoop
\* checkForLevelCompletion, with the gameState captured by the gameLoop closure
checkForLevelCompletion(r, snap) ==
  LET isLastWaveComplete == r.currentWave >= maxWaves(r.cfg) - 1
      noEnemies == /\ r.enemies = 0
                   /\ ~snap.isPaused
                   /\ ~snap.isGameOver
                   /\ ~snap.victory
                   /\ ~r.justStarted
  IN IF r.justStarted THEN r
     ELSE IF noEnemies /\ ~r.waveRef /\ isLastWaveComplete
     THEN handleLevelComplete(r, snap.level + 1)
     ELSE IF ~noEnemies THEN r
     ELSE IF isLastWaveComplete
     THEN IF ~snap.victory THEN handleLevelComplete(r, snap.level + 1) ELSE r
     ELSE IF r.waveRef THEN r
     ELSE IF ~r.progressRef /\ ~r.justStarted
     THEN [r EXCEPT !.progressRef = TRUE,
                    !.timers = Append(r.timers,
                                      Timer("progress", ProgressDelay, snap.level, 0,
                                            "progress"))]
     ELSE r

\* Player.update(): the invulnerability ends once its clock has run out
playerUpdate(m) ==
  IF m.invulnerable /\ m.invulnerableTimer = 0
  THEN [m EXCEPT !.invulnerable = FALSE]
  ELSE m

\* Player.makeInvulnerable()
makeInvulnerable(m) ==
  [m EXCEPT !.invulnerable = TRUE, !.invulnerableTimer = InvulnerableTime]

\* the hit branch deciding isGameOver from the closure's gameState.health alone
playerHitFromSnapshot(g, snapHealth) ==
  [g EXCEPT !.health = g.health - 1, !.isGameOver = (snapHealth - 1 <= 0)]

\* the two setGameState calls of the enemy-bullet-hits-player branch;
\* snapHealth is gameState.health of the gameLoop closure
playerHit(g, snapHealth) ==
  IF snapHealth - 1 <= 0
  THEN [g EXCEPT !.health = g.health - 1, !.isGameOver = TRUE]
  ELSE [g EXCEPT !.health = g.health - 1, !.isGameOver = (g.health <= 1)]

\* the enemies the player's bullets destroy in one frame: none, or the ones
\* still alive
KillChoices(n) == {0, n}

\* One animation frame.  Its inputs: whether an enemy bullet overlaps the
\* player, whether enemy bullets are in flight when the frame ends (enemies
\* shoot, bullets leave the field or are removed), and how many enemies the
\* player's bullets destroy.  React
\* renders a state update made in a frame before the next frame is called
\* (the update is flushed in a task of its own, frames are a display refresh
\* apart).
Frame ==
  /\ mounted
  /\ main.raf
  /\ ~CommitPending
  /\ IF ~LoopRuns(main.snap)
     THEN /\ main' = [main EXCEPT !.raf = FALSE]
          /\ UNCHANGED <<gs, storage, enemiesRef, currentWaveRef, difficultyConfigRef,
                         gameJustStartedRef, waveTimeoutRef, levelProgressTimeoutRef,
                         enableProgressionTimerRef, timers, hitWindow>>
     ELSE \E hit, inFlight \in BOOLEAN, kills \in KillChoices(enemiesRef) :
            LET m1 == playerUpdate(main)
                r1 == checkForLevelCompletion(Cur, main.snap)
                enemyShots == m1.enemyBullets \/ r1.enemies > 0
                struck == hit /\ ~m1.invulnerable
                m2 == IF struck THEN makeInvulnerable(m1) ELSE m1
                g1 == IF struck THEN playerHit(r1.gs, main.snap.health) ELSE r1.gs
                g2 == [g1 EXCEPT !.score = g1.score + EnemyKillScore * kills]
            IN /\ (hit \/ inFlight) => enemyShots
               /\ kills <= r1.enemies
               /\ g2.score <= MaxScore
               /\ g2.level <= MaxLevel
               /\ main' = [m2 EXCEPT !.enemyBullets = inFlight]
               /\ hitWindow' = IF struck /\ r1.gs.health > 1
                                THEN InvulnerableTime ELSE hitWindow
               /\ Set([r1 EXCEPT !.gs = g2, !.enemies = r1.enemies - kills])
  /\ UNCHANGED <<mounted, rendered, uiDirty, obs, inputs>>
  /\ UNCHANGED detailVars

\* ------------------------------------------------------------ user inputs
\* a user input arrives when no callback is due and React has rendered
Quiescent ==
  /\ mounted
  /\ ~CommitPending
  /\ obs.rem # 0
  /\ \A i \in DOMAIN timers : timers[i].rem # 0

\* Escape key / Pause button: setGameState(prev => !prev.isPaused)
TogglePause ==
  /\ Quiescent
  /\ inputs < MaxInputs
  /\ inputs' = inputs + 1
  /\ gs' = [gs EXCEPT !.isPaused = ~gs.isPaused]
  /\ UNCHANGED <<mounted, storage, rendered, uiDirty, enemiesRef, currentWaveRef,
                 difficultyConfigRef, gameJustStartedRef, waveTimeoutRef,
                 levelProgressTimeoutRef, enableProgressionTimerRef, main, obs, timers,
                 hitWindow>>
  /\ UNCHANGED detailVars

\* window resize: handleResize stores a new canvasScale object
Resize ==
  /\ Quiescent
  /\ inputs < MaxInputs
  /\ inputs' = inputs + 1
  /\ uiDirty' = TRUE
  /\ UNCHANGED <<mounted, storage, gs, rendered, enemiesRef, currentWaveRef,
                 difficultyConfigRef, gameJustStartedRef, waveTimeoutRef,
                 levelProgressTimeoutRef, enableProgressionTimerRef, main, obs, timers,
                 hitWindow>>
  /\ UNCHANGED detailVars

\* the timers startNewGame leaves pending were armed before the reset
Outlived(ts) == [i \in DOMAIN ts |-> [ts[i] EXCEPT !.old = TRUE]]

\* startNewGame resetting gameState but for the level reached
startNewGameKeepLevel(r, snapLevel) ==
  [r EXCEPT
     !.justStarted = TRUE,
     !.storage = 0,
     !.waveRef = FALSE,
     !.progressRef = FALSE,
     !.enemies = 0,
     !.currentWave = 0,
     !.cfg = 1,
     !.gs = [score |-> 0, isGameOver |-> FALSE, isPaused |-> FALSE,
             health |-> INITIAL_HEALTH, victory |-> FALSE, level |-> r.gs.level],
     !.timers = Append(Outlived(ClearRef(ClearRef(r.timers, "wave"), "progress")),
                       Timer("newGame", NewGameDelay, snapLevel, 0, "none"))]

\* startNewGame up to its setTimeout; the "Try Again" button is rendered
\* while gameState.isGameOver
startNewGame(r, snapLevel) ==
  [r EXCEPT
     !.justStarted = TRUE,
     !.storage = 0,
     !.waveRef = FALSE,
     !.progressRef = FALSE,
     !.enemies = 0,
     !.currentWave = 0,
     !.cfg = 1,
     !.gs = [score |-> 0, isGameOver |-> FALSE, isPaused |-> FALSE,
             health |-> INITIAL_HEALTH, victory |-> FALSE, level |-> 1],
     !.timers = Append(Outlived(ClearRef(ClearRef(r.timers, "wave"), "progress")),
                       Timer("newGame", NewGameDelay, snapLevel, 0, "none"))]

StartNewGame ==
  /\ Quiescent
  /\ rendered.isGameOver
  /\ inputs < MaxInputs
  /\ inputs' = inputs + 1
  /\ Set(startNewGame(Cur, rendered.level))
  /\ UNCHANGED <<mounted, rendered, uiDirty, main, obs, hitWindow>>
  /\ UNCHANGED detailVars

\* ------------------------------------------------------------------- time
\* the observer poll would arm its re-check in the current state
ObserverReady ==
  /\ ~(obs.snap.isPaused \/ obs.snap.isGameOver \/ obs.snap.victory \/ gameJustStartedRef)
  /\ enemiesRef = 0
  /\ (currentWaveRef >= maxWaves(difficultyConfigRef) - 1 \/ ~waveTimeoutRef)
  /\ ~levelProgressTimeoutRef

\* the deadlines time can advance to: pending timers, the end of the player's
\* invulnerability, and the observer poll when it would do something (a poll
\* that returns at once leaves every variable but its own phase unchanged)
Clocks ==
  { timers[i].rem : i \in DOMAIN timers }
    \cup (IF ObserverReady THEN {obs.rem} ELSE {})
    \cup (IF main.invulnerableTimer > 0 THEN {main.invulnerableTimer} ELSE {})

SetMin(S) == CHOOSE x \in S : \A y \in S : x <= y

\* time advances to the next deadline
Tick ==
  /\ mounted
  /\ ~CommitPending
  /\ obs.rem > 0
  /\ Clocks # {}
  /\ \A c \in Clocks : c > 0
  /\ LET d == SetMin(Clocks)
     IN /\ timers' = [i \in DOMAIN timers |-> [timers[i] EXCEPT !.rem = @ - d]]
        /\ obs' = [obs EXCEPT !.rem = (@ - d) % ObserverPeriod]
        /\ main' = [main EXCEPT !.invulnerableTimer = Max(0, @ - d)]
        /\ hitWindow' = Max(0, hitWindow - d)
  /\ UNCHANGED <<mounted, storage, gs, rendered, uiDirty, enemiesRef, currentWaveRef,
                 difficultyConfigRef, gameJustStartedRef, waveTimeoutRef,
                 levelProgressTimeoutRef, enableProgressionTimerRef, inputs>>
  /\ UNCHANGED detailVars

Next ==
  \/ Mount
  \/ Commit
  \/ TimerFire
  \/ ObserverPoll
  \/ Frame
  \/ TogglePause
  \/ Resize
  \/ StartNewGame
  \/ Tick

Spec == Init /\ [][Next]_vars

\* The browser runs due timer callbacks, the interval callback and requested
\* animation frames, React renders scheduled updates, and time passes; the
\* user's inputs are not forced.
FairSpec ==
  /\ Spec
  /\ WF_vars(Commit)
  /\ WF_vars(TimerFire)
  /\ WF_vars(ObserverPoll)
  /\ WF_vars(Frame)
  /\ WF_vars(Tick)

\* ============================================ gameLoop, entity by entity
\* One main effect run at a fixed level, frame by frame: the player shoots,
\* enemies are spawned and shoot, and gameLoop walks the powerUps and the
\* bullets arrays with forEach, splicing them as it goes.  Which boxes
\* overlap is an input of each test (every pair is tested at most once per
\* frame).
MaxEnemies == 1
MaxBullets == 3
MaxPowerUps == 1
MaxFrameScore == 110

\* one level for each combination of enemy types and health multiplier:
\* basic only (1), no tanks (2), tanks with multiplier 2 (3 to 5) and 3 (6 up)
SpawnLevels == {1, 2, 3, 6}

BulletKillScore == 10
ShieldTime == 5000
TankHealth == 3
TankInitialSize == 10
TankShrink == 2

\* ---------------------------------- getDifficultyConfig(L), other fields
\* probabilities and chances in hundredths, multipliers in hundredths
enemyHealthMultiplier(level) == Min(3, 1 + (level \div 3))
enemySpeedMultiplier(level) == 100 + (level - 1) * 8
shooterProbability(level) == Min(40, IF level = 1 THEN 0 ELSE 5 + (level - 1) * 5)
tankProbability(level) == Min(30, IF level <= 2 THEN 0 ELSE 5 + (level - 2) * 5)
fastProbability(level) == Min(30, IF level = 1 THEN 0 ELSE 5 + (level - 1) * 5)
bulletSpeedMultiplier(level) == 100 + (level - 1) * 10
spreadShotLevel(level) == level \div 3
fireRateMultiplier(level) == 100 + (level - 1) * 10
powerUpChance(level) == IF level = 1 THEN 30 ELSE Max(10, 20 - (level - 2) * 2)

\* the numeric fields of getDifficultyConfig(level)
getDifficultyConfig(level) ==
  [baseEnemiesPerWave |-> baseEnemiesPerWave(level),
   maxWaves |-> maxWaves(level),
   waveDelay |-> waveDelay(level),
   enemyHealthMultiplier |-> enemyHealthMultiplier(level),
   enemySpeedMultiplier |-> enemySpeedMultiplier(level),
   shooterProbability |-> shooterProbability(level),
   tankProbability |-> tankProbability(level),
   fastProbability |-> fastProbability(level),
   bulletSpeedMultiplier |-> bulletSpeedMultiplier(level),
   spreadShotLevel |-> spreadShotLevel(level),
   fireRateMultiplier |-> fireRateMultiplier(level),
   powerUpChance |-> powerUpChance(level)]

\* ------------------------------------------------------------ spawnEnemy
\* the types Math.random() can select under the level's probabilities
\* (random is in [0, 1): BASIC is left when the three sum to less than 1)
SpawnTypes(level) ==
  (IF shooterProbability(level) > 0 THEN {"shooter"} ELSE {})
    \cup (IF tankProbability(level) > 0 THEN {"tank"} ELSE {})
    \cup (IF fastProbability(level) > 0 THEN {"fast"} ELSE {})
    \cup (IF shooterProbability(level) + tankProbability(level)
               + fastProbability(level) < 100 THEN {"basic"} ELSE {})

\* Enemy.setupType: health of a new enemy
setupType(type) == IF type = "tank" THEN TankHealth ELSE 1

\* the objects of an array are told apart by id: their place in the array
\* when the frame started
Labelled(seq) == [j \in DOMAIN seq |-> [seq[j] EXCEPT !.id = j]]

\* new Enemy(..., type, level) with the level-based health adjustment of
\* spawnEnemy; initialSize in tenths; hits counts the calls of hit()
spawnEnemy(es, type, level) ==
  Append(es, [id |-> Len(es) + 1, type |-> type,
              health |-> setupType(type) * enemyHealthMultiplier(level),
              initialSize |-> TankInitialSize, hits |-> 0])

\* Enemy.hit(): the enemy after the call (it returns health <= 0)
Enemy_hit(e) ==
  [e EXCEPT !.health = @ - 1,
            !.initialSize = IF e.type = "tank" THEN @ - TankShrink ELSE @,
            !.hits = @ + 1]

\* Enemy.draw, tank: sizeMultiplier = 0.7 + initialSize * (health / 3) * 0.5,
\* times 60 (initialSize is in tenths)
sizeMultiplier(e) == 42 + e.initialSize * e.health

PowerUpTypes == {"shield", "spreadShot", "speed", "health"}

\* Player.activatePowerUp(type)
activatePowerUp(p, type) ==
  IF type = "shield" THEN [p EXCEPT !.hasShield = TRUE] ELSE p

\* a hit that leaves the player vulnerable
stayVulnerable(p) == p

\* Player.makeInvulnerable() on the Player of the frame view
Player_makeInvulnerable(p) == [p EXCEPT !.invulnerable = TRUE]

\* array.splice(index, 1) with a 0-based index
Splice(seq, index) ==
  IF index < 0 \/ index >= Len(seq) THEN seq
  ELSE [j \in 1..(Len(seq) - 1) |-> IF j <= index THEN seq[j] ELSE seq[j + 1]]

Ids(seq) == { seq[j].id : j \in DOMAIN seq }

Event(kind, pb, eb, pu) == [kind |-> kind, pb |-> pb, eb |-> eb, pu |-> pu]

\* the variables of the progression view a frame leaves alone (the frames run
\* inside the grace window, where every completion check returns at once)
progressionVars ==
  <<mounted, storage, rendered, uiDirty, currentWaveRef, difficultyConfigRef,
    gameJustStartedRef, waveTimeoutRef, levelProgressTimeoutRef,
    enableProgressionTimerRef, main, obs, timers, hitWindow, inputs>>

\* a main effect run at level L has just started
FrameInit ==
  /\ mounted = TRUE
  /\ storage = 0
  /\ \E L \in SpawnLevels :
       /\ gs = [InitialGameState EXCEPT !.level = L]
       /\ difficultyConfigRef = L
  /\ rendered = Deps(gs)
  /\ uiDirty = FALSE
  /\ enemiesRef = 0
  /\ currentWaveRef = 0
  /\ gameJustStartedRef = TRUE
  /\ waveTimeoutRef = FALSE
  /\ levelProgressTimeoutRef = FALSE
  /\ enableProgressionTimerRef = FALSE
  /\ main = NewMain(gs, TRUE)
  /\ obs = [snap |-> Deps(gs), rem |-> ObserverPeriod]
  /\ timers = NoTimers
  /\ hitWindow = 0
  /\ inputs = 0
  /\ NoEntities
  /\ collision = NoCollisionTest
  /\ formationRun = NoFormationRun
  /\ enemyObj = NoObject /\ playerObj = NoObject

\* spawnEnemy, called for each enemy of a wave between two frames
SpawnEnemy ==
  /\ loop.phase = "idle"
  /\ ~gs.isGameOver
  /\ Len(enemies) < MaxEnemies
  /\ \E type \in SpawnTypes(difficultyConfigRef) :
       enemies' = spawnEnemy(enemies, type, difficultyConfigRef)
  /\ enemiesRef' = Len(enemies')
  /\ event' = NoEvent
  /\ UNCHANGED <<gs, bullets, powerUps, player, loop, shieldWindow>>
  /\ UNCHANGED <<progressionVars, collision, formationRun, enemyObj, playerObj>>

\* gameLoop up to the powerUps loop: the pause / game-over gate on the
\* gameState of the closure, handlePlayerMovement (the player may shoot),
\* player.update() (the 5000 ms of the shield and the 2000 ms of the
\* invulnerability may have run out; React renders a state update long
\* before 2000 ms have passed) and the enemies loop (an enemy may shoot)
StartFrame ==
  /\ loop.phase = "idle"
  /\ LoopRuns(main.snap)
  /\ \E shoot, fire, shieldOver, invulnerableOver \in BOOLEAN :
       LET b1 == IF shoot
                 THEN Append(bullets, [id |-> Len(bullets) + 1, isEnemyBullet |-> FALSE])
                 ELSE bullets
           b2 == IF fire
                 THEN Append(b1, [id |-> Len(b1) + 1, isEnemyBullet |-> TRUE])
                 ELSE b1
       IN /\ fire => enemies # << >>
          /\ shieldOver => shieldWindow > 0
          /\ invulnerableOver => (player.invulnerable /\ Deps(gs) = rendered)
          /\ Len(b2) <= MaxBullets
          /\ bullets' = b2
          /\ player' = [player EXCEPT
                          !.hasShield = @ /\ ~shieldOver,
                          !.invulnerable = @ /\ ~invulnerableOver]
          /\ shieldWindow' = IF shieldOver THEN 0 ELSE shieldWindow
  /\ loop' = [phase |-> "powerUps", k |-> 0, n |-> Len(powerUps), spent |-> {}]
  /\ event' = NoEvent
  /\ UNCHANGED <<gs, enemiesRef, enemies, powerUps>>
  /\ UNCHANGED <<progressionVars, collision, formationRun, enemyObj, playerObj>>

\* one call of the powerUps.forEach callback; forEach visits index k while k
\* is below the length the array had when the loop started and the array
\* still has an element there
PowerUpStep ==
  /\ loop.phase = "powerUps"
  /\ loop.k < Min(loop.n, Len(powerUps))
  /\ \E outcome \in {"passes", "falls", "collected"} :
       LET powerUp == powerUps[loop.k + 1]
       IN /\ powerUps' = IF outcome = "passes" THEN powerUps
                         ELSE Splice(powerUps, loop.k)
          /\ player' = IF outcome = "collected"
                       THEN activatePowerUp(player, powerUp.type) ELSE player
          /\ event' = IF outcome = "collected"
                      THEN Event("collect", 0, 0, powerUp.type) ELSE NoEvent
          /\ shieldWindow' = IF outcome = "collected" /\ powerUp.type = "shield"
                             THEN ShieldTime ELSE shieldWindow
  /\ loop' = [loop EXCEPT !.k = @ + 1]
  /\ UNCHANGED <<gs, enemiesRef, enemies, bullets>>
  /\ UNCHANGED <<progressionVars, collision, formationRun, enemyObj, playerObj>>

\* the powerUps loop is over (explosions and particles follow): the bullets
\* loop starts
PowerUpsDone ==
  /\ loop.phase = "powerUps"
  /\ loop.k >= Min(loop.n, Len(powerUps))
  /\ loop' = [phase |-> "bullets", k |-> 0, n |-> Len(bullets), spent |-> {}]
  /\ event' = NoEvent
  /\ UNCHANGED <<gs, enemiesRef, enemies, bullets, powerUps, player, shieldWindow>>
  /\ UNCHANGED <<progressionVars, collision, formationRun, enemyObj, playerObj>>

\* the bullet-vs-enemy loop of a player bullet at index k: i runs down from
\* the last enemy; every enemy the bullet overlaps is hit and
\* bullets.splice(k, 1) runs again, until a hit destroys an enemy (break)
RECURSIVE hitEnemies(_, _, _, _)
hitEnemies(i, touched, k, st) ==
  IF i < 0 THEN st
  ELSE IF i \notin touched THEN hitEnemies(i - 1, touched, k, st)
  ELSE LET bs == Splice(st.bullets, k)
           enemy == Enemy_hit(st.enemies[i + 1])
       IN IF enemy.health <= 0
          THEN [st EXCEPT !.bullets = bs,
                          !.enemies = Splice(@, i),
                          !.score = @ + EnemyKillScore,
                          !.killed = TRUE]
          ELSE hitEnemies(i - 1, touched, k,
                          [st EXCEPT !.bullets = bs, !.enemies[i + 1] = enemy])

\* "Remove both bullets": the two splice calls of the bullet-vs-bullet branch
removeBoth(bs, enemyBulletIndex, playerBulletIndex) ==
  Splice(Splice(bs, enemyBulletIndex), playerBulletIndex)

\* the bonus awarded as if an enemy had been destroyed
awardEnemyKill(g) == [g EXCEPT !.score = @ + EnemyKillScore]

\* a bullet kill that costs its bonus instead of adding it
chargeBulletKill(g) == [g EXCEPT !.score = @ - BulletKillScore]

\* the score bonus for shooting down an enemy bullet
awardBulletKill(g) == [g EXCEPT !.score = @ + BulletKillScore]

\* indices of the enemy bullets in the array
EnemyBulletIndices(bs) == { j \in 0..(Len(bs) - 1) : bs[j + 1].isEnemyBullet }

\* one call of the bullets.forEach callback, for the bullet at index loop.k
BulletStep ==
  /\ loop.phase = "bullets"
  /\ loop.k < Min(loop.n, Len(bullets))
  /\ LET playerBulletIndex == loop.k
         playerBullet == bullets[playerBulletIndex + 1]
     IN \/ \* the bullet has left the screen
           /\ bullets' = Splice(bullets, playerBulletIndex)
           /\ event' = NoEvent
           /\ loop' = [loop EXCEPT !.k = @ + 1]
           /\ UNCHANGED <<gs, enemiesRef, enemies, powerUps, player>>
        \/ \* an enemy bullet: it may overlap the player
           /\ playerBullet.isEnemyBullet
           /\ \E touches \in BOOLEAN :
                IF ~player.invulnerable /\ ~player.hasShield /\ touches
                THEN /\ bullets' = Splice(bullets, playerBulletIndex)
                     /\ player' = Player_makeInvulnerable(player)
                     /\ gs' = playerHit(gs, main.snap.health)
                     /\ event' = Event("playerHit", 0, playerBullet.id, "none")
                ELSE /\ event' = NoEvent
                     /\ UNCHANGED <<bullets, player, gs>>
           /\ loop' = [loop EXCEPT !.k = @ + 1]
           /\ UNCHANGED <<enemiesRef, enemies, powerUps>>
        \/ \* a player bullet that overlaps an enemy bullet: enemyBulletIndex
           \* is the last index of such a bullet (the loop runs downwards)
           /\ ~playerBullet.isEnemyBullet
           /\ \E enemyBulletIndex \in EnemyBulletIndices(bullets) :
                /\ bullets' = removeBoth(bullets, enemyBulletIndex, playerBulletIndex)
                /\ event' = Event("bulletKill", playerBullet.id,
                                  bullets[enemyBulletIndex + 1].id, "none")
           /\ gs' = awardBulletKill(gs)
           /\ gs'.score <= MaxFrameScore
           /\ loop' = [loop EXCEPT !.k = @ + 1, !.spent = @ \cup {playerBullet.id}]
           /\ UNCHANGED <<enemiesRef, enemies, powerUps, player>>
        \/ \* a player bullet that overlaps no enemy bullet: the enemies it
           \* overlaps, and the power-up a destroyed enemy drops
           /\ ~playerBullet.isEnemyBullet
           /\ \E touched \in SUBSET (0..(Len(enemies) - 1)),
                 drop \in PowerUpTypes \cup {"none"} :
                LET st == hitEnemies(Len(enemies) - 1, touched, playerBulletIndex,
                                     [bullets |-> bullets, enemies |-> enemies,
                                      score |-> gs.score, killed |-> FALSE])
                IN /\ drop # "none" => (st.killed /\ Len(powerUps) < MaxPowerUps)
                   /\ st.score <= MaxFrameScore
                   /\ bullets' = st.bullets
                   /\ enemies' = st.enemies
                   /\ enemiesRef' = Len(st.enemies)
                   /\ gs' = [gs EXCEPT !.score = st.score]
                   /\ powerUps' = IF drop = "none" THEN powerUps
                                  ELSE Append(powerUps, [type |-> drop])
                   /\ event' = IF touched = {} THEN NoEvent
                               ELSE Event("enemyHit", playerBullet.id, 0, "none")
           /\ loop' = [loop EXCEPT !.k = @ + 1]
           /\ UNCHANGED player
  /\ UNCHANGED <<progressionVars, collision, formationRun, enemyObj, playerObj, shieldWindow>>

\* the bullets loop is over: gameLoop requests the next frame
EndFrame ==
  /\ loop.phase = "bullets"
  /\ loop.k >= Min(loop.n, Len(bullets))
  /\ loop' = BetweenFrames
  /\ bullets' = Labelled(bullets)
  /\ enemies' = Labelled(enemies)
  /\ event' = NoEvent
  /\ UNCHANGED <<gs, enemiesRef, powerUps, player, shieldWindow>>
  /\ UNCHANGED <<progressionVars, collision, formationRun, enemyObj, playerObj>>

\* React re-renders between two frames and the main game effect runs again,
\* because isGameOver changed or because canvasScale got a new object
\* (resize): a new Player, empty bullets and powerUps arrays and an empty
\* enemy collection, and a gameLoop closure over the gameState of this
\* render.  The wave is spawned again by SpawnEnemy.
MainEffectRerun ==
  /\ loop.phase = "idle"
  /\ \/ Deps(gs) # rendered /\ inputs' = inputs
     \/ Deps(gs) = rendered /\ inputs < MaxInputs /\ inputs' = inputs + 1
  /\ rendered' = Deps(gs)
  /\ main' = NewMain(gs, LoopRuns(gs))
  /\ player' = NewPlayer
  /\ bullets' = << >>
  /\ powerUps' = << >>
  /\ enemies' = << >>
  /\ enemiesRef' = 0
  /\ loop' = BetweenFrames
  /\ event' = NoEvent
  /\ UNCHANGED <<mounted, storage, gs, uiDirty, currentWaveRef,
                 difficultyConfigRef, gameJustStartedRef, waveTimeoutRef,
                 levelProgressTimeoutRef, enableProgressionTimerRef, obs, timers,
                 hitWindow, shieldWindow, collision, formationRun, enemyObj, playerObj>>

FrameNext ==
  \/ SpawnEnemy
  \/ StartFrame
  \/ PowerUpStep
  \/ PowerUpsDone
  \/ BulletStep
  \/ EndFrame
  \/ MainEffectRerun

FrameSpec == FrameInit /\ [][FrameNext]_vars

\* ================================================ the bullets loop alone
\* The bullets loop of one frame, started with LoopEnemies enemies on screen
\* (a wave has at least 5): a player bullet can overlap more than one enemy.
LoopEnemies == 2

\* the bullets array holding one bullet per entry of kinds (TRUE: fired by
\* an enemy)
BulletsOf(kinds) ==
  [j \in DOMAIN kinds |-> [id |-> j, isEnemyBullet |-> kinds[j]]]

\* gameLoop reaches bullets.forEach in a main effect run at level L, with
\* LoopEnemies enemies spawned at that level and up to MaxBullets bullets
BulletLoopInit ==
  /\ mounted = TRUE
  /\ storage = 0
  /\ \E L \in SpawnLevels :
       /\ gs = [InitialGameState EXCEPT !.level = L]
       /\ difficultyConfigRef = L
       /\ \E types \in [1..LoopEnemies -> SpawnTypes(L)] :
            enemies = Labelled([j \in 1..LoopEnemies |->
                                  spawnEnemy(<< >>, types[j], L)[1]])
  /\ rendered = Deps(gs)
  /\ uiDirty = FALSE
  /\ enemiesRef = LoopEnemies
  /\ currentWaveRef = 0
  /\ gameJustStartedRef = TRUE
  /\ waveTimeoutRef = FALSE
  /\ levelProgressTimeoutRef = FALSE
  /\ enableProgressionTimerRef = FALSE
  /\ main = NewMain(gs, TRUE)
  /\ obs = [snap |-> Deps(gs), rem |-> ObserverPeriod]
  /\ timers = NoTimers
  /\ hitWindow = 0
  /\ inputs = 0
  /\ \E n \in 1..MaxBullets : \E kinds \in [1..n -> BOOLEAN] :
       /\ bullets = BulletsOf(kinds)
       /\ loop = [phase |-> "bullets", k |-> 0, n |-> n, spent |-> {}]
  /\ powerUps = << >>
  /\ player = NewPlayer
  /\ event = NoEvent
  /\ shieldWindow = 0
  /\ collision = NoCollisionTest
  /\ formationRun = NoFormationRun
  /\ enemyObj = NoObject /\ playerObj = NoObject

BulletLoopNext ==
  \/ BulletStep
  \/ EndFrame

BulletLoopSpec == BulletLoopInit /\ [][BulletLoopNext]_vars

\* ===================================================== checkCollision
\* One bounding-box test on two GameObjects with integer coordinates and
\* even sizes (so that width / 2 is exact).
MaxCoord == 3

BoxSizes == {2, 4}

GameObjects ==
  [x : 0..MaxCoord, y : 0..MaxCoord, width : BoxSizes, height : BoxSizes]

\* Bullet.checkCollision(other)
Bullet_checkCollision(this, other) ==
  /\ this.x < other.x + other.width
  /\ this.x + this.width > other.x
  /\ this.y < other.y + other.height
  /\ this.y + this.height > other.y

\* PowerUp.checkCollision(other)
PowerUp_checkCollision(this, other) ==
  /\ this.x - (this.width \div 2) < other.x + other.width
  /\ this.x + (this.width \div 2) > other.x
  /\ this.y - (this.height \div 2) < other.y + other.height
  /\ this.y + (this.height \div 2) > other.y

\* checkBulletCollision(bullet1, bullet2)
collisionMargin == 5

\* the plain test, without the margin
checkWithoutMargin(bullet1, bullet2) == Bullet_checkCollision(bullet1, bullet2)

checkBulletCollision(bullet1, bullet2) ==
  /\ bullet1.x - collisionMargin < bullet2.x + bullet2.width + collisionMargin
  /\ bullet1.x + bullet1.width + collisionMargin > bullet2.x - collisionMargin
  /\ bullet1.y - collisionMargin < bullet2.y + bullet2.height + collisionMargin
  /\ bullet1.y + bullet1.height + collisionMargin > bullet2.y - collisionMargin

\* the objects of a test that has not run yet
CollisionInit ==
  /\ mounted = FALSE
  /\ storage = 0
  /\ gs = [InitialGameState EXCEPT !.level = 0]
  /\ rendered = Deps(gs)
  /\ uiDirty = FALSE
  /\ enemiesRef = 0
  /\ currentWaveRef = 0
  /\ difficultyConfigRef = 1
  /\ gameJustStartedRef = TRUE
  /\ waveTimeoutRef = FALSE
  /\ levelProgressTimeoutRef = FALSE
  /\ enableProgressionTimerRef = FALSE
  /\ main = NewMain(gs, FALSE)
  /\ obs = [snap |-> Deps(gs), rem |-> 0]
  /\ timers = NoTimers
  /\ hitWindow = 0
  /\ inputs = 0
  /\ NoEntities
  /\ \E a, b \in GameObjects : collision = [done |-> FALSE, a |-> a, b |-> b]
  /\ formationRun = NoFormationRun
  /\ enemyObj = NoObject /\ playerObj = NoObject

\* both methods are called on the two objects, in both orders
TestCollision ==
  /\ ~collision.done
  /\ collision' =
       [done |-> TRUE, a |-> collision.a, b |-> collision.b,
        bulletAB |-> Bullet_checkCollision(collision.a, collision.b),
        bulletBA |-> Bullet_checkCollision(collision.b, collision.a),
        powerUpAB |-> PowerUp_checkCollision(collision.a, collision.b),
        powerUpBA |-> PowerUp_checkCollision(collision.b, collision.a),
        marginAB |-> checkBulletCollision(collision.a, collision.b),
        marginBA |-> checkBulletCollision(collision.b, collision.a)]
  /\ UNCHANGED <<gs, enemiesRef, entityVars, progressionVars, formationRun, enemyObj, playerObj>>

CollisionSpec == CollisionInit /\ [][TestCollision]_vars

\* Two bullets (12 by 12): a player bullet anywhere up to MaxBulletCoord and
\* an enemy bullet near the middle, up to 11 apart on either side.
MaxBulletCoord == 46
BulletSize == 12

BulletCollisionInit ==
  /\ mounted = FALSE
  /\ storage = 0
  /\ gs = [InitialGameState EXCEPT !.level = 0]
  /\ rendered = Deps(gs)
  /\ uiDirty = FALSE
  /\ enemiesRef = 0
  /\ currentWaveRef = 0
  /\ difficultyConfigRef = 1
  /\ gameJustStartedRef = TRUE
  /\ waveTimeoutRef = FALSE
  /\ levelProgressTimeoutRef = FALSE
  /\ enableProgressionTimerRef = FALSE
  /\ main = NewMain(gs, FALSE)
  /\ obs = [snap |-> Deps(gs), rem |-> 0]
  /\ timers = NoTimers
  /\ hitWindow = 0
  /\ inputs = 0
  /\ NoEntities
  /\ \E ax, ay \in 0..MaxBulletCoord : \E bx, by \in {23, 24} :
       collision =
         [done |-> FALSE,
          a |-> [x |-> ax, y |-> ay, width |-> BulletSize, height |-> BulletSize],
          b |-> [x |-> bx, y |-> by, width |-> BulletSize, height |-> BulletSize]]
  /\ formationRun = NoFormationRun
  /\ enemyObj = NoObject /\ playerObj = NoObject

BulletCollisionSpec == BulletCollisionInit /\ [][TestCollision]_vars

\* ===================================================== createFormation
\* One createFormation call of spawnEnemyWave at a level up to
\* MaxFormationLevel (every formation is available from level 10, and the
\* wave size has reached its cap), one spawnEnemy call per step.  Columns
\* are in hundredths.
MaxFormationLevel == 10

GAME_WIDTH == 800

\* Math.random() * 0.8 + 0.1 of the random formation, in hundredths: its
\* least value, a middle one and one close to its upper limit
RandomX == {10, 50, 89}

\* width of a row of the diamond
diamondRowWidth(size, row) == IF row < size THEN row + 1 ELSE size * 2 - row - 1

\* the col arguments of the spawnEnemy calls of the diamond, in call order:
\* enemyCount / 2 + (i - (rowWidth - 1) / 2) * 1.5
RECURSIVE diamondCols(_, _, _, _, _)
diamondCols(size, enemyCount, row, i, acc) ==
  IF row >= size * 2 - 1 THEN acc
  ELSE IF i >= diamondRowWidth(size, row)
  THEN diamondCols(size, enemyCount, row + 1, 0, acc)
  ELSE diamondCols(size, enemyCount, row, i + 1,
                   IF Len(acc) < enemyCount
                   THEN Append(acc, 50 * enemyCount
                                      + (2 * i - (diamondRowWidth(size, row) - 1)) * 75)
                   ELSE acc)

\* x of new Enemy(80 + col * (GAME_WIDTH - 160) / (totalEnemies - 1), ...) as
\* the fraction num / den; den = 0 stands for the division by zero
spawnX(col, totalEnemies) ==
  [num |-> 80 * 100 * (totalEnemies - 1) + col * (GAME_WIDTH - 160),
   den |-> 100 * (totalEnemies - 1)]

\* spawnEnemyWave(level, waveNumber) is about to call createFormation
FormationInit ==
  /\ mounted = FALSE
  /\ storage = 0
  /\ gs = [InitialGameState EXCEPT !.level = 0]
  /\ rendered = Deps(gs)
  /\ uiDirty = FALSE
  /\ enemiesRef = 0
  /\ currentWaveRef = 0
  /\ difficultyConfigRef = 1
  /\ gameJustStartedRef = TRUE
  /\ waveTimeoutRef = FALSE
  /\ levelProgressTimeoutRef = FALSE
  /\ enableProgressionTimerRef = FALSE
  /\ main = NewMain(gs, FALSE)
  /\ obs = [snap |-> Deps(gs), rem |-> 0]
  /\ timers = NoTimers
  /\ hitWindow = 0
  /\ inputs = 0
  /\ NoEntities
  /\ collision = NoCollisionTest
  /\ enemyObj = NoObject /\ playerObj = NoObject
  /\ \E level \in 1..MaxFormationLevel :
       \E waveNumber \in 0..(maxWaves(level) - 1) :
         \E formation \in FormationChoices(level, waveNumber) :
           formationRun =
             [on |-> TRUE, level |-> level, waveNumber |-> waveNumber,
              formation |-> formation,
              enemyCount |-> IF waveNumber = 0 /\ level = 1 THEN 5
                             ELSE baseEnemiesPerWave(level),
              k |-> 0, x |-> [num |-> 0, den |-> 0]]

\* the next spawnEnemy call of the formation
FormationStep ==
  /\ formationRun.on
  /\ formationRun.k < createFormation(formationRun.formation, formationRun.enemyCount)
  /\ \E randomX \in RandomX :
       LET enemyCount == formationRun.enemyCount
           col == CASE formationRun.formation = "diamond" ->
                         diamondCols(diamondSize(enemyCount), enemyCount, 0, 0,
                                     << >>)[formationRun.k + 1]
                    [] formationRun.formation = "random" -> randomX * (enemyCount - 1)
                    [] OTHER -> 100 * formationRun.k
       IN formationRun' = [formationRun EXCEPT !.k = @ + 1,
                                               !.x = spawnX(col, enemyCount)]
  /\ UNCHANGED <<gs, enemiesRef, entityVars, progressionVars, collision,
                 enemyObj, playerObj>>

FormationSpec == FormationInit /\ [][FormationStep]_vars

\* ============================================ Enemy.update, one enemy alone
\* lengths are in hundredths of a pixel, times in ms
Px == 100
BOUNDARY_PADDING == 30
GAME_HEIGHT == 600
StepDown == 10
OffScreenTicks == 120
DiveTime == 3000
SnapDistance == 5
\* the time between two frames of the 60 fps loop
FrameTime == 16
\* the levels whose enemies are followed
MotionLevels == {1, 3}

\* getDifficultyConfig(level).divingEnemies
divingEnemies(level) == level > 2

\* spawnEnemy: new Enemy(x, 60 + row * 60, type, level) with the speed
\* adjustment and the diving flag (speeds in hundredths of a pixel per tick)
newEnemy(x, row, type, level, dive) ==
  [on |-> TRUE, type |-> type,
   x |-> x, y |-> (60 + row * 60) * Px - 100 * Px,
   originalX |-> x, originalY |-> (60 + row * 60) * Px,
   targetY |-> (60 + row * 60) * Px,
   width |-> IF type = "tank" THEN 60 * Px ELSE 40 * Px,
   height |-> IF type = "tank" THEN 60 * Px ELSE 40 * Px,
   speed |-> ((CASE type = "tank" -> 50 [] type = "fast" -> 200 [] OTHER -> 100)
                * enemySpeedMultiplier(level)) \div 100,
   verticalSpeed |-> CASE type = "shooter" -> 50 [] type = "tank" -> 30
                       [] type = "fast" -> 100 [] OTHER -> 70,
   direction |-> 1, diveAtPlayer |-> dive, divePhase |-> "ready",
   diverTimer |-> 0, timeOffScreen |-> 0, reversed |-> FALSE]

\* a dive that ends in formation without the way back
diveWithoutReturn(e, start) ==
  CASE e.divePhase = "ready" ->
         IF start THEN [e EXCEPT !.divePhase = "diving", !.diverTimer = 3000]
         ELSE e
    [] e.divePhase = "diving" ->
         [e EXCEPT !.y = @ + e.verticalSpeed * 3, !.divePhase = "ready"]
    [] OTHER -> e

\* Enemy.handleDiving; start is Math.random() < 0.005, diverTimer is the time
\* left until the dive timer (now > diverTimer when it is negative)
handleDiving(e, start) ==
  CASE e.divePhase = "ready" /\ e.y >= e.targetY - 20 * Px ->
         IF start THEN [e EXCEPT !.divePhase = "diving", !.diverTimer = DiveTime]
         ELSE e
    [] e.divePhase = "diving" ->
         LET y == e.y + e.verticalSpeed * 3
             left == e.diverTimer - FrameTime
         IN [e EXCEPT !.y = y,
                      !.diverTimer = IF left < 0 \/ y > 600 * Px THEN 0 ELSE left,
                      !.divePhase = IF left < 0 \/ y > 600 * Px THEN "returning"
                                    ELSE "diving"]
    [] e.divePhase = "returning" ->
         LET dx == e.originalX - e.x
             dy == e.originalY - e.y
             near(d) == -SnapDistance * Px < d /\ d < SnapDistance * Px
         IN IF /\ near(dx) /\ near(dy)
               /\ dx * dx + dy * dy < (SnapDistance * Px) * (SnapDistance * Px)
            THEN [e EXCEPT !.x = e.originalX, !.y = e.originalY,
                           !.divePhase = "ready"]
            ELSE [e EXCEPT !.x = @ + (dx * 5) \div 100,
                           !.y = @ + (dy * 5) \div 100]
    [] OTHER -> e

\* Enemy.update, standard horizontal movement; reversed records that this
\* update turned the enemy round
sweep(e) ==
  LET x == e.x + e.speed * e.direction
      turn == x <= BOUNDARY_PADDING * Px
                \/ x + e.width >= (GAME_WIDTH - BOUNDARY_PADDING) * Px
  IN [e EXCEPT !.x = x,
               !.direction = IF turn THEN -@ ELSE @,
               !.y = IF turn THEN @ + StepDown * Px ELSE @,
               !.reversed = turn]

\* Enemy.update: isOffScreen
isOffScreen(e) ==
  \/ e.x + e.width < 0
  \/ e.x > GAME_WIDTH * Px
  \/ e.y + e.height < 0
  \/ e.y > (GAME_HEIGHT + 100) * Px

\* an enemy that is never brought back
stayOffScreen(e) == [e EXCEPT !.timeOffScreen = 0]

\* Enemy.update, timeOffScreen > 120: force the enemy back to the screen
forceBack(e) ==
  [e EXCEPT !.x = IF e.x + e.width < 0 THEN BOUNDARY_PADDING * Px
                  ELSE IF e.x > GAME_WIDTH * Px
                       THEN GAME_WIDTH * Px - e.width - BOUNDARY_PADDING * Px
                       ELSE @,
            !.direction = IF e.x + e.width < 0 THEN 1
                          ELSE IF e.x > GAME_WIDTH * Px THEN -1 ELSE @,
            !.y = IF e.y > (GAME_HEIGHT + 100) * Px THEN 50 * Px ELSE @,
            !.timeOffScreen = 0]

\* Enemy.update()
Enemy_update(e, start) ==
  LET a == IF e.y < e.targetY THEN [e EXCEPT !.y = @ + e.verticalSpeed] ELSE e
      b == IF a.diveAtPlayer THEN handleDiving([a EXCEPT !.reversed = FALSE], start)
           ELSE sweep(a)
  IN IF isOffScreen(b)
     THEN IF b.timeOffScreen + 1 > OffScreenTicks THEN forceBack(b)
          ELSE [b EXCEPT !.timeOffScreen = @ + 1]
     ELSE [b EXCEPT !.timeOffScreen = 0]

\* one enemy as spawnEnemy creates it in the first or the last slot of a
\* linear formation (x = 80 and x = 720) or in between
EnemyInit ==
  /\ mounted = FALSE
  /\ storage = 0
  /\ gs = InitialGameState
  /\ rendered = Deps(gs)
  /\ uiDirty = FALSE
  /\ enemiesRef = 0
  /\ currentWaveRef = 0
  /\ difficultyConfigRef = 1
  /\ gameJustStartedRef = FALSE
  /\ waveTimeoutRef = FALSE
  /\ levelProgressTimeoutRef = FALSE
  /\ enableProgressionTimerRef = FALSE
  /\ main = NewMain(gs, FALSE)
  /\ obs = [snap |-> Deps(gs), rem |-> 0]
  /\ timers = NoTimers
  /\ hitWindow = 0
  /\ inputs = 0
  /\ NoEntities
  /\ collision = NoCollisionTest
  /\ formationRun = NoFormationRun
  /\ playerObj = NoObject
  /\ \E level \in MotionLevels : \E type \in SpawnTypes(level) :
       \E x \in {80 * Px, 400 * Px, 720 * Px} :
         \E dive \in IF divingEnemies(level) THEN BOOLEAN ELSE {FALSE} :
           enemyObj = newEnemy(x, 0, type, level, dive)

\* one frame: gameLoop calls enemy.update()
EnemyTick ==
  /\ enemyObj.on
  /\ \E start \in BOOLEAN : enemyObj' = Enemy_update(enemyObj, start)
  /\ UNCHANGED <<gs, enemiesRef, entityVars, progressionVars, collision,
                 formationRun, playerObj>>

EnemySpec == EnemyInit /\ [][EnemyTick]_vars

\* ================================================ Player, one player alone
\* Date.now() is followed from Epoch to MaxPlayerTime in steps of ClockStep
MaxPlayerTime == 13000
Epoch == 1000
ClockStep == 1000
InvulnerableMs == 2000

\* new Player(GAME_WIDTH / 2, GAME_HEIGHT - 50) at time now; op is the last
\* call that reads the clock; lengths in hundredths of a pixel
newPlayer(now) ==
  [on |-> TRUE, x |-> (GAME_WIDTH \div 2) * Px, y |-> (GAME_HEIGHT - 50) * Px,
   width |-> 50 * Px, height |-> 50 * Px, speed |-> 5 * Px, baseSpeed |-> 5 * Px,
   hasShield |-> FALSE, hasSpreadShot |-> FALSE, shieldTimer |-> 0,
   spreadShotTimer |-> 0, speedTimer |-> 0, invulnerable |-> FALSE,
   invulnerableTimer |-> 0, now |-> now, op |-> "new"]

\* moves that leave the playfield
moveUnclamped(p, dir) ==
  CASE dir = "moveLeft" -> [p EXCEPT !.x = @ - p.speed]
    [] dir = "moveRight" -> [p EXCEPT !.x = @ + p.speed]
    [] dir = "moveUp" -> [p EXCEPT !.y = @ - p.speed]
    [] OTHER -> [p EXCEPT !.y = @ + p.speed]

\* Player.moveLeft, moveRight, moveUp, moveDown
Player_move(p, dir) ==
  CASE dir = "moveLeft" -> [p EXCEPT !.x = Max(0, @ - p.speed)]
    [] dir = "moveRight" ->
         [p EXCEPT !.x = Min(800 * Px - p.width, @ + p.speed)]
    [] dir = "moveUp" -> [p EXCEPT !.y = Max(0, @ - p.speed)]
    [] OTHER -> [p EXCEPT !.y = Min(600 * Px - p.height, @ + p.speed)]

\* Player.update()
Player_update(p) ==
  LET over(timer) == timer > 0 /\ p.now > timer
  IN [p EXCEPT !.hasShield = IF over(p.shieldTimer) THEN FALSE ELSE @,
               !.shieldTimer = IF over(p.shieldTimer) THEN 0 ELSE @,
               !.hasSpreadShot = IF over(p.spreadShotTimer) THEN FALSE ELSE @,
               !.spreadShotTimer = IF over(p.spreadShotTimer) THEN 0 ELSE @,
               !.speed = IF over(p.speedTimer) THEN p.baseSpeed ELSE @,
               !.speedTimer = IF over(p.speedTimer) THEN 0 ELSE @,
               !.invulnerable = IF over(p.invulnerableTimer) THEN FALSE ELSE @,
               !.invulnerableTimer = IF over(p.invulnerableTimer) THEN 0 ELSE @,
               !.op = "update"]

\* a speed boost that multiplies the current speed
compoundSpeed(p, type) ==
  IF type = "speed"
  THEN [p EXCEPT !.speed = (@ * 3) \div 2, !.speedTimer = p.now + ShieldTime,
                 !.op = type]
  ELSE [p EXCEPT !.op = type]

\* Player.activatePowerUp(type), duration = 5000
Player_activatePowerUp(p, type) ==
  CASE type = "shield" ->
         [p EXCEPT !.hasShield = TRUE, !.shieldTimer = p.now + ShieldTime,
                   !.op = type]
    [] type = "spreadShot" ->
         [p EXCEPT !.hasSpreadShot = TRUE, !.spreadShotTimer = p.now + ShieldTime,
                   !.op = type]
    [] type = "speed" ->
         [p EXCEPT !.speed = (p.baseSpeed * 3) \div 2,
                   !.speedTimer = p.now + ShieldTime, !.op = type]
    [] OTHER -> [p EXCEPT !.op = type]

\* a new Player when the main game effect runs
PlayerInit ==
  /\ mounted = FALSE
  /\ storage = 0
  /\ gs = InitialGameState
  /\ rendered = Deps(gs)
  /\ uiDirty = FALSE
  /\ enemiesRef = 0
  /\ currentWaveRef = 0
  /\ difficultyConfigRef = 1
  /\ gameJustStartedRef = FALSE
  /\ waveTimeoutRef = FALSE
  /\ levelProgressTimeoutRef = FALSE
  /\ enableProgressionTimerRef = FALSE
  /\ main = NewMain(gs, FALSE)
  /\ obs = [snap |-> Deps(gs), rem |-> 0]
  /\ timers = NoTimers
  /\ hitWindow = 0
  /\ inputs = 0
  /\ NoEntities
  /\ collision = NoCollisionTest
  /\ formationRun = NoFormationRun
  /\ enemyObj = NoObject
  /\ playerObj = newPlayer(Epoch)

\* time passes between two calls
PlayerClock(dt) ==
  /\ playerObj.on
  /\ playerObj.now + dt <= MaxPlayerTime
  /\ playerObj' = [playerObj EXCEPT !.now = @ + dt, !.op = "clock"]
  /\ UNCHANGED <<gs, enemiesRef, entityVars, progressionVars, collision,
                 formationRun, enemyObj>>

\* gameLoop: player.activatePowerUp(powerUp.type)
PlayerPickup(type) ==
  /\ playerObj.on
  /\ playerObj' = Player_activatePowerUp(playerObj, type)
  /\ UNCHANGED <<gs, enemiesRef, entityVars, progressionVars, collision,
                 formationRun, enemyObj>>

\* gameLoop: player.makeInvulnerable()
PlayerHit ==
  /\ playerObj.on
  /\ playerObj' = [playerObj EXCEPT !.invulnerable = TRUE,
                                    !.invulnerableTimer = playerObj.now + InvulnerableMs,
                                    !.op = "makeInvulnerable"]
  /\ UNCHANGED <<gs, enemiesRef, entityVars, progressionVars, collision,
                 formationRun, enemyObj>>

\* gameLoop: player.update()
PlayerUpdate ==
  /\ playerObj.on
  /\ playerObj' = Player_update(playerObj)
  /\ UNCHANGED <<gs, enemiesRef, entityVars, progressionVars, collision,
                 formationRun, enemyObj>>

\* handlePlayerMovement: one of the four moves
PlayerMove ==
  /\ playerObj.on
  /\ \E dir \in {"moveLeft", "moveRight", "moveUp", "moveDown"} :
       playerObj' = Player_move(playerObj, dir)
  /\ UNCHANGED <<gs, enemiesRef, entityVars, progressionVars, collision,
                 formationRun, enemyObj>>

\* the status effects of the Player
PlayerNext ==
  \/ PlayerClock(ClockStep)
  \/ \E type \in PowerUpTypes : PlayerPickup(type)
  \/ PlayerHit
  \/ PlayerUpdate

PlayerSpec == PlayerInit /\ [][PlayerNext]_vars

\* the moves of the Player, with and without the speed boost
PlayerMoveNext ==
  \/ PlayerMove
  \/ PlayerPickup("speed")
  \/ PlayerClock(MaxPlayerTime - Epoch)
  \/ PlayerUpdate

PlayerMoveSpec == PlayerInit /\ [][PlayerMoveNext]_vars

\* ================================================================= claims
\* the advance sequences of handleLevelComplete that are armed
AdvanceCount(ts) == Cardinality({i \in DOMAIN ts : ts[i].k = "advance"})

\* a step in which level completion takes effect: handleLevelComplete passes
\* its guards and arms one more advance sequence
CompletionFires == AdvanceCount(timers') > AdvanceCount(timers)

\* C1: level completion takes effect exactly once per level: a completion only
\* takes effect when no victory transition is in progress (victory is false
\* and no advance sequence is armed), however the triggers interleave.
C1_CompletionExactlyOnce ==
  [][CompletionFires => (~gs.victory /\ AdvanceCount(timers) = 0)]_vars

Pending(k) == \E i \in DOMAIN timers : timers[i].k = k

\* C2: while the just-started grace flag is set, no step raises the level,
\* sets victory or arms an advance sequence.
C2_NoCompletionInGrace ==
  [][(mounted /\ gameJustStartedRef) =>
       /\ ~CompletionFires
       /\ gs'.level <= gs.level
       /\ (gs'.victory => gs.victory)]_vars

\* C2 witness: every enemy of level 1 was destroyed inside the grace window
\* and the last-wave checks have run without completing the level.
C2_Witness ==
  /\ mounted
  /\ gameJustStartedRef
  /\ enemiesRef = 0
  /\ gs.score >= 5 * EnemyKillScore
  /\ gs.level = 1
  /\ ~gs.victory
  /\ ~Pending("lastWave")
  /\ ~Pending("init0")
  /\ ~Pending("advance")

\* C3: whenever level completion takes effect, at that moment the enemy
\* collection is empty, no next-wave spawn is scheduled, the current wave is
\* the last wave of the level, victory is false and the grace flag is false.
C3_CompletionConditions ==
  [][CompletionFires =>
       /\ enemiesRef = 0
       /\ ~Pending("wave")
       /\ currentWaveRef = maxWaves(difficultyConfigRef) - 1
       /\ ~gs.victory
       /\ ~gameJustStartedRef]_vars

\* the pending 100 ms callbacks of startNewGame
NewGameCount(ts) == Cardinality({i \in DOMAIN ts : ts[i].k = "newGame"})

NewGameStarts == NewGameCount(timers') > NewGameCount(timers)

\* C5: right after startNewGame score = 0, health = 3, level = 1, isGameOver,
\* isPaused and victory are false, the wave index is 0, the configuration is
\* that of level 1 and the enemy and bullet collections are empty; and a
\* freshly mounted game is at level 1 whatever level localStorage held.
C5_NewGameResets ==
  [][/\ NewGameStarts =>
          /\ gs' = InitialGameState
          /\ currentWaveRef' = 0
          /\ difficultyConfigRef' = 1
          /\ enemiesRef' = 0
          /\ ~main'.enemyBullets
     /\ (~mounted /\ mounted') =>
          /\ gs' = InitialGameState
          /\ difficultyConfigRef' = 1
          /\ enemiesRef' = 0]_vars

\* C5 witness: startNewGame has just run in a game that had reached level 2
\* with a score above 0, and the first wave is not spawned yet.
C5_Witness ==
  /\ \E i \in DOMAIN timers :
        timers[i].k = "newGame" /\ timers[i].a = 2 /\ timers[i].rem = NewGameDelay
  /\ rendered.isGameOver
  /\ rendered.level = 2
  /\ gs = InitialGameState
  /\ enemiesRef = 0

\* a step in which a callback armed before the last startNewGame runs and
\* changes the enemies, the wave index, the level, victory or the grace flag
OldCallbackActs ==
  \E i \in DOMAIN timers :
    /\ timers[i].old
    /\ timers[i].rem = 0
    /\ \E formation \in FormationChoices(SpawnArgs(timers[i])[1], SpawnArgs(timers[i])[2]) :
         LET r == runCallback([Cur EXCEPT !.timers = RemoveAt(timers, i)],
                              timers[i], formation)
         IN /\ timers' = r.timers
            /\ gs' = r.gs
            /\ enemiesRef' = r.enemies
            /\ currentWaveRef' = r.currentWave
            /\ gameJustStartedRef' = r.justStarted
            /\ UNCHANGED <<main, obs, rendered, uiDirty, inputs>>
    /\ \/ enemiesRef' # enemiesRef
       \/ currentWaveRef' # currentWaveRef
       \/ gs'.level # gs.level
       \/ gs'.victory # gs.victory
       \/ gameJustStartedRef' # gameJustStartedRef

\* C6: no callback armed before startNewGame runs after it with an effect on
\* the enemies, the wave index, the level, victory or the grace flag.
C6_NoCallbackOutlivesReset == [][~OldCallbackActs]_vars

\* C7: at the start of level 1 wave 0 puts exactly 5 enemies into the enemy
\* collection: as long as the player has destroyed nothing (score 0) in a
\* game at level 1, the collection is empty (wave 0 not spawned yet) or
\* holds exactly 5 enemies.
C7_FiveEnemiesAtStart ==
  (mounted /\ gs.level = 1 /\ difficultyConfigRef = 1 /\ gs.score = 0)
    => enemiesRef \in {0, 5}

\* C9: a hit lowers health by exactly one, leaves isGameOver false when it
\* was taken at health > 1, and no hit lowers health within 2000 ms of the
\* last hit taken at health > 1, whatever else happens in that window.
C9_InvulnerableAfterHit ==
  [][gs'.health < gs.health =>
       /\ gs'.health = gs.health - 1
       /\ gs.health > 1 => ~gs'.isGameOver
       /\ hitWindow = 0]_vars

\* C10: in every state of the mounted game isGameOver is true iff
\* health <= 0 (the hit that takes health to 0 sets isGameOver in the same
\* update, a hit taken at health > 1 does not set it).
C10_GameOverIffNoHealth ==
  mounted => (gs.isGameOver <=> gs.health <= 0)

\* C10 witness: the hit taken at health 1 has just been applied and React has
\* not rendered it yet.
C10_Witness ==
  /\ mounted
  /\ gs.health = 0
  /\ gs.isGameOver
  /\ ~rendered.isGameOver
  /\ main.invulnerable

\* every enemy of the last wave of level L is destroyed while the game is
\* not paused, not over, not in a victory transition and outside the grace
\* window
LastWaveDestroyed(L) ==
  /\ mounted
  /\ gs.level = L
  /\ difficultyConfigRef = L
  /\ currentWaveRef = maxWaves(L) - 1
  /\ enemiesRef = 0
  /\ gs.score > 0
  /\ ~gs.isPaused
  /\ ~gs.isGameOver
  /\ ~gs.victory
  /\ ~gameJustStartedRef
  /\ ~Pending("init0")
  /\ ~Pending("advanceSpawn")
  /\ ~Pending("newGame")

\* the Active state of level L: victory is false and wave 0 of L is spawned
ActiveAt(L) ==
  /\ gs.level = L
  /\ difficultyConfigRef = L
  /\ ~gs.victory
  /\ currentWaveRef = 0
  /\ enemiesRef > 0

\* C8: once every enemy of the last wave of level L is destroyed (game not
\* paused, not over, outside the grace window), the level eventually becomes
\* L+1 and the Active state is re-entered with wave 0 of level L+1 spawned.
\* A game the user pauses, or that ends, before the transition is excused:
\* frames stop there.
C8_CompletionLeadsToNextLevel ==
  \A L \in 1..(MaxLevel - 1) :
     LastWaveDestroyed(L) ~> (ActiveAt(L + 1) \/ gs.isPaused \/ gs.isGameOver)

\* C11: once isGameOver is true and until startNewGame is invoked, no enemy
\* is added to the enemy collection and score, level, wave index and victory
\* do not change (no wave-spawn or level-advance callback takes effect).
C11_GameOverHaltsProgress ==
  [][(mounted /\ gs.isGameOver /\ ~NewGameStarts) =>
       /\ enemiesRef' <= enemiesRef
       /\ gs'.score = gs.score
       /\ gs'.level = gs.level
       /\ currentWaveRef' = currentWaveRef
       /\ gs'.victory = gs.victory]_vars

\* C12: GameOver is entered from the Active state only: in no step does
\* isGameOver become true while a level transition is in progress (victory
\* true before or after the step).
C12_GameOverOnlyFromActive ==
  [][(mounted /\ ~gs.isGameOver /\ gs'.isGameOver) =>
       (~gs.victory /\ ~gs'.victory)]_vars

\* C13: when a player bullet and an enemy bullet collide, the step removes
\* exactly those two bullets from the bullets array and no other, whatever
\* the order of the two in the array.
C13_BulletKillRemovesBoth ==
  [][event'.kind = "bulletKill" =>
       Ids(bullets') = Ids(bullets) \ {event'.pb, event'.eb}]_vars

\* C14: a bullet-vs-bullet kill adds exactly 10 to score and leaves the enemy
\* collection and every enemy's health unchanged, and a player bullet that
\* took part in one hits no enemy in the same frame.
C14_BulletKillScoresTen ==
  [][/\ event'.kind = "bulletKill" =>
          /\ gs'.score = gs.score + 10
          /\ enemies' = enemies
          /\ enemiesRef' = enemiesRef
     /\ event'.kind = "enemyHit" => event'.pb \notin loop.spent]_vars

\* C14 witness: a player bullet has shot down an enemy bullet while an enemy
\* was on screen, and the player bullet is still in the array.
C14_Witness ==
  /\ event.kind = "bulletKill"
  /\ enemies # << >>
  /\ event.pb \in Ids(bullets)
  /\ event.pb \in loop.spent
  /\ gs.score = BulletKillScore

\* the enemy with identifier id in the array es
EnemyById(es, id) == es[CHOOSE j \in DOMAIN es : es[j].id = id]

\* the Tanks that hit() is called on in this step of the bullets loop
TanksHit ==
  { e \in { enemies[j] : j \in DOMAIN enemies } :
      /\ e.type = "tank"
      /\ event'.kind = "enemyHit"
      /\ \/ e.id \notin Ids(enemies')
         \/ EnemyById(enemies', e.id).hits = e.hits + 1 }

\* C15: a Tank is destroyed by exactly its third hit: hit() returns false on
\* the first and second call and true on the third, at every level where the
\* spawner creates Tanks.
C15_TankDiesOnThirdHit ==
  [][\A e \in TanksHit : (e.id \notin Ids(enemies')) <=> (e.hits + 1 = 3)]_vars

\* C16: after each hit that does not destroy a Tank its rendered size factor
\* 0.7 + initialSize * (health / 3) * 0.5 is strictly smaller than before.
C16_TankShrinks ==
  [][\A e \in TanksHit :
       e.id \in Ids(enemies') =>
         sizeMultiplier(EnemyById(enemies', e.id)) < sizeMultiplier(e)]_vars

\* C20: in the step in which the player collects a Health power-up, health
\* increases by 1, up to the maximum of 3.
C20_HealthPowerUpRestores ==
  [][(event'.kind = "collect" /\ event'.pu = "health") =>
       gs'.health = Min(INITIAL_HEALTH, gs.health + 1)]_vars

\* the numeric fields of the difficulty configuration
ConfigFields == DOMAIN getDifficultyConfig(1)

\* the documented caps
ConfigCaps ==
  [enemyHealthMultiplier |-> 3, baseEnemiesPerWave |-> 15, maxWaves |-> 6,
   shooterProbability |-> 40, tankProbability |-> 30, fastProbability |-> 30]

\* C17: for the level L in force, every numeric field of
\* getDifficultyConfig(L) is at most the same field of
\* getDifficultyConfig(L + 1), and the capped fields are within their caps.
C17_DifficultyMonotone ==
  mounted =>
    LET L == difficultyConfigRef
    IN /\ \A f \in ConfigFields :
            getDifficultyConfig(L)[f] <= getDifficultyConfig(L + 1)[f]
       /\ \A f \in DOMAIN ConfigCaps : getDifficultyConfig(L)[f] <= ConfigCaps[f]

\* width and height of the intersection of two boxes given by their top-left
\* corner and size
OverlapWidth(a, b) == Min(a.x + a.width, b.x + b.width) - Max(a.x, b.x)
OverlapHeight(a, b) == Min(a.y + a.height, b.y + b.height) - Max(a.y, b.y)

\* the box a power-up tests for itself: centred on (x, y)
Centred(a) == [a EXCEPT !.x = @ - (a.width \div 2), !.y = @ - (a.height \div 2)]

\* C18: the bounding-box test is symmetric and strict: checkCollision gives
\* the same result with the two objects swapped, and it returns false when
\* the boxes have no overlap of positive area (they only touch, or are apart).
C18_CollisionSymmetricStrict ==
  collision.done =>
    /\ collision.bulletAB = collision.bulletBA
    /\ collision.bulletAB =>
         (OverlapWidth(collision.a, collision.b) > 0
            /\ OverlapHeight(collision.a, collision.b) > 0)
    /\ collision.powerUpAB = collision.powerUpBA
    /\ collision.powerUpAB =>
         (OverlapWidth(Centred(collision.a), collision.b) > 0
            /\ OverlapHeight(Centred(collision.a), collision.b) > 0)

\* the pending timers of the kinds in ks
TimerCount(ts, ks) == Cardinality({i \in DOMAIN ts : ts[i].k \in ks})

\* C19: while isPaused is true no step changes score or health, completes
\* the level, or arms a timer of the in-loop completion check or of the
\* observer poll; and neither pausing nor the paused game removes a pending
\* advance sequence of handleLevelComplete: it goes on until its last
\* callback has run.
C19_PauseSuspendsSimulation ==
  [][/\ (mounted /\ gs.isPaused /\ gs'.isPaused) =>
          /\ gs'.score = gs.score
          /\ gs'.health = gs.health
          /\ ~CompletionFires
          /\ TimerCount(timers', {"progress", "observerRecheck"})
               <= TimerCount(timers, {"progress", "observerRecheck"})
     /\ (mounted /\ gs'.isPaused
           /\ TimerCount(timers', {"advance", "advanceSpawn"})
                < TimerCount(timers, {"advance", "advanceSpawn"})) =>
          \E i \in DOMAIN timers :
            timers[i].k = "advanceSpawn" /\ timers[i].rem = 0]_vars

\* C19 witness: the game is paused, React has rendered the pause, and the
\* first callback of an advance sequence armed before the pause has just run.
C19_Witness ==
  /\ mounted
  /\ gs.isPaused
  /\ rendered.isPaused
  /\ ~main.raf
  /\ \E i \in DOMAIN timers :
       timers[i].k = "advanceSpawn" /\ timers[i].rem = AdvanceSpawnDelay

\* C21: while the shield is active (the 5000 ms after the latest Shield
\* pickup are running) or the player is invulnerable, no step of the bullets
\* loop hits the player: health is not reduced, the game does not become
\* over, and no enemy bullet is removed by a hit.
C21_ShieldBlocksDamage ==
  [][(shieldWindow > 0 \/ player.invulnerable) =>
       /\ gs'.health >= gs.health
       /\ gs'.isGameOver = gs.isGameOver
       /\ event'.kind # "playerHit"]_vars

\* the timers whose callback calls spawnEnemyWave
SpawnKinds == {"init0", "wave", "advanceSpawn", "newGame"}

\* C22: at most one next-wave spawn timer is pending at any time, and no two
\* pending schedules spawn the same wave index of the same level.
C22_OneWaveSchedule ==
  mounted =>
    /\ TimerCount(timers, {"wave"}) <= 1
    /\ \A i, j \in DOMAIN timers :
         (i # j /\ timers[i].k \in SpawnKinds /\ timers[j].k \in SpawnKinds)
           => SpawnArgs(timers[i]) # SpawnArgs(timers[j])

\* the timers whose callback can call handleLevelComplete
CompletionKinds == {"progress", "lastWave", "observerRecheck"}

\* the step runs the callback of the due timer i
CallbackRuns(i) ==
  /\ timers[i].rem = 0
  /\ \E formation \in FormationChoices(SpawnArgs(timers[i])[1], SpawnArgs(timers[i])[2]) :
       LET r == runCallback([Cur EXCEPT !.timers = RemoveAt(timers, i)],
                            timers[i], formation)
       IN /\ timers' = r.timers
          /\ gs' = r.gs
          /\ storage' = r.storage
          /\ enemiesRef' = r.enemies
          /\ currentWaveRef' = r.currentWave
          /\ difficultyConfigRef' = r.cfg
          /\ gameJustStartedRef' = r.justStarted
          /\ levelProgressTimeoutRef' = r.progressRef
          /\ UNCHANGED <<main, obs, rendered, uiDirty, inputs, hitWindow>>

\* C23: a timer callback that completes the level finds, in the state it
\* fires in, the enemy collection empty, no victory transition in progress
\* and the game neither paused nor over; otherwise it does nothing.
C23_CallbacksRevalidate ==
  [][\A i \in DOMAIN timers :
       (timers[i].k \in CompletionKinds /\ CallbackRuns(i) /\ CompletionFires) =>
          /\ enemiesRef = 0
          /\ ~gs.victory
          /\ ~gs.isPaused
          /\ ~gs.isGameOver]_vars

\* C24: a level transition spawns wave 0 of the new level exactly once: in
\* the step that clears victory (the transition finishes) the enemy
\* collection holds exactly baseEnemiesPerWave enemies of the new level, the
\* configuration in force is the new level's and the wave index is 0.
C24_TransitionSpawnsWaveOnce ==
  [][(mounted /\ gs.victory /\ ~gs'.victory /\ ~NewGameStarts) =>
       /\ enemiesRef' = baseEnemiesPerWave(gs'.level)
       /\ difficultyConfigRef' = gs'.level
       /\ currentWaveRef' = 0]_vars

\* the enemies a step of the bullets loop removes or whose health it lowers
Damaged ==
  { e \in { enemies[j] : j \in DOMAIN enemies } :
      \/ e.id \notin Ids(enemies')
      \/ EnemyById(enemies', e.id).health < e.health }

\* the enemies a step of the bullets loop removes
Destroyed == { e \in Damaged : e.id \notin Ids(enemies') }

\* C25: in one frame a player bullet that hits an enemy damages at most one
\* enemy and removes exactly itself from the bullets array; a destruction
\* removes that enemy once and adds exactly 100 to score, and a hit that
\* destroys nothing leaves score alone.
C25_OneBulletOneEnemy ==
  [][event'.kind = "enemyHit" =>
       /\ Cardinality(Damaged) <= 1
       /\ Ids(bullets') = Ids(bullets) \ {event'.pb}
       /\ Len(bullets') = Len(bullets) - 1
       /\ Len(enemies') = Len(enemies) - Cardinality(Destroyed)
       /\ gs'.score = gs.score + EnemyKillScore * Cardinality(Destroyed)]_vars

\* C26: apart from the new-game reset, score is never negative and no step
\* of gameLoop lowers it: a step leaves it alone, adds 100 (an enemy is
\* destroyed) or adds 10 (an enemy bullet is shot down).
C26_ScoreMonotone ==
  [][~NewGameStarts =>
       /\ gs'.score >= 0
       /\ gs'.score - gs.score \in {0, EnemyKillScore, BulletKillScore}
       /\ gs'.score = gs.score + EnemyKillScore => event'.kind = "enemyHit"
       /\ gs'.score = gs.score + BulletKillScore => event'.kind = "bulletKill"]_vars

\* C26 witness: an enemy has been destroyed and an enemy bullet shot down,
\* the second of them in the step just taken.
C26_Witness ==
  /\ gs.score = EnemyKillScore + BulletKillScore
  /\ event.kind \in {"enemyHit", "bulletKill"}

\* C27: in every reachable state 0 <= health <= 3.
C27_HealthInRange == gs.health \in 0..INITIAL_HEALTH

\* C27 witness: the hit that took health to 0 has been applied, React has
\* not rendered the game-over state yet, and a further frame starts its
\* bullets loop with an enemy bullet in the array.
C27_Witness ==
  /\ gs.health = 0
  /\ gs.isGameOver
  /\ ~rendered.isGameOver
  /\ loop.phase = "bullets"
  /\ loop.k = 0
  /\ \E j \in DOMAIN bullets : bullets[j].isEnemyBullet

\* C28: in every state of the mounted game the wave index is between 0 and
\* maxWaves - 1 of the configuration in force, and spawnEnemyWave called
\* there with a wave number of maxWaves or more adds no enemy and leaves the
\* wave index unchanged.
C28_WaveIndexInRange ==
  mounted =>
    /\ currentWaveRef \in 0..(maxWaves(difficultyConfigRef) - 1)
    /\ \A level \in 1..MaxLevel :
         \A waveNumber \in maxWaves(difficultyConfigRef)..(maxWaves(difficultyConfigRef) + 1) :
           \A formation \in availableFormations(level) :
             LET r == spawnEnemyWave(Cur, level, waveNumber, formation)
             IN r.enemies = enemiesRef /\ r.currentWave = currentWaveRef

\* C28 witness: after the change to level 2 the configuration of level 2 is
\* in force and its last wave (index maxWaves - 1 = 1) has been spawned.
C28_Witness ==
  /\ mounted
  /\ gs.level = 2
  /\ difficultyConfigRef = 2
  /\ currentWaveRef = maxWaves(2) - 1
  /\ currentWaveRef > 0
  /\ enemiesRef > 0

\* the enemy types the gating allows in a game at level L
GatedTypes(L) ==
  {"basic"} \cup (IF L >= 2 THEN {"shooter", "fast"} ELSE {})
            \cup (IF L >= 3 THEN {"tank"} ELSE {})

\* C29: every enemy spawned in a game at level 1 is Basic, no Shooter or Fast
\* enemy is spawned below level 2 and no Tank below level 3: a step that adds
\* enemies rolls their types under a configuration that allows only the
\* types of the game's level; and the three probabilities of the
\* configuration in force sum to at most 1.
C29_TypeGating ==
  [][mounted' =>
       /\ enemiesRef' > enemiesRef =>
            SpawnTypes(difficultyConfigRef') \subseteq GatedTypes(gs'.level)
       /\ shooterProbability(difficultyConfigRef')
            + tankProbability(difficultyConfigRef')
            + fastProbability(difficultyConfigRef') <= 100]_vars

\* C30: no spawn divides by zero: every formation is created with between 5
\* and 15 enemies, so totalEnemies - 1 is not 0 in spawnEnemy nor in the arc,
\* and every spawned enemy gets a finite x with 80 <= x <= 720.
C30_NoDivisionByZero ==
  formationRun.on =>
    /\ formationRun.enemyCount \in 5..15
    /\ formationRun.enemyCount - 1 # 0
    /\ formationRun.k > 0 =>
         /\ formationRun.x.den # 0
         /\ 80 * formationRun.x.den <= formationRun.x.num
         /\ formationRun.x.num <= 720 * formationRun.x.den

\* C30 witness: the last enemy of an arc of 15 has been spawned, at x = 720.
C30_Witness ==
  /\ formationRun.on
  /\ formationRun.formation = "arc"
  /\ formationRun.enemyCount = 15
  /\ formationRun.k = formationRun.enemyCount
  /\ formationRun.x.num = 720 * formationRun.x.den

\* C31: a sweeping (non-diving) enemy that turned round at a bound moves away
\* from it: from every spawn position and type it never turns round in two
\* consecutive updates.
C31_NoDoubleReversal ==
  [][(enemyObj.on /\ ~enemyObj.diveAtPlayer /\ enemyObj.reversed)
       => ~enemyObj'.reversed]_vars

\* C32: the dive phase changes only along ready -> diving -> returning ->
\* ready; an enemy without the diving flag stays in ready; a dive starts its
\* 3000 ms clock, and the diving phase ends in the update in which the clock
\* has expired or y > 600, and in no other; the step from returning to
\* ready puts the enemy exactly on its formation slot.
C32_DiveCycle ==
  [][enemyObj.on =>
       LET before == enemyObj.divePhase
           after == enemyObj'.divePhase
       IN /\ before # after =>
               <<before, after>> \in {<<"ready", "diving">>, <<"diving", "returning">>,
                                      <<"returning", "ready">>}
          /\ ~enemyObj.diveAtPlayer => after = "ready"
          /\ (before = "ready" /\ after = "diving") =>
               enemyObj'.diverTimer = DiveTime
          /\ before = "diving" =>
               (after = "returning"
                  <=> (enemyObj.diverTimer - FrameTime < 0 \/ enemyObj'.y > 600 * Px))
          /\ (before = "returning" /\ after = "ready") =>
               /\ enemyObj'.x = enemyObj.originalX
               /\ enemyObj'.y = enemyObj.originalY]_vars

\* C32 witness: a Tank that dived for its 3000 ms is back on its slot (its
\* approach to the slot in steps of 0.3 ends at 60.2, not at 60)
C32_Witness ==
  /\ enemyObj.on /\ enemyObj.diveAtPlayer /\ enemyObj.type = "tank"
  /\ enemyObj.divePhase = "ready"
  /\ enemyObj.x = enemyObj.originalX /\ enemyObj.y = enemyObj.originalY

\* C33: the update that finds an enemy off-field for the 121st consecutive
\* tick puts it inside the field (y = 50 if it was below, x to 30 or to
\* 770 - width if it was beside) and resets timeOffScreen; timeOffScreen is
\* 0 whenever the enemy is on-field and never exceeds 120, so no enemy stays
\* off-field.
C33_OffFieldRecovery ==
  [][enemyObj.on =>
       /\ ~isOffScreen(enemyObj') => enemyObj'.timeOffScreen = 0
       /\ enemyObj'.timeOffScreen <= OffScreenTicks
       /\ enemyObj.timeOffScreen = OffScreenTicks =>
            /\ ~isOffScreen(enemyObj')
            /\ enemyObj'.timeOffScreen = 0
            /\ enemyObj.y > (GAME_HEIGHT + 100) * Px => enemyObj'.y = 50 * Px
       /\ \A x \in {-1 - enemyObj.width, GAME_WIDTH * Px + 1} :
            LET back == forceBack([enemyObj EXCEPT !.x = x])
            IN /\ BOUNDARY_PADDING * Px <= back.x
               /\ back.x + back.width <= (GAME_WIDTH - BOUNDARY_PADDING) * Px]_vars

\* C33 witness: a Basic enemy is back at y = 50 (its approach to the slot in
\* steps of 0.7 does not pass 50)
C33_Witness ==
  /\ enemyObj.on /\ enemyObj.type = "basic" /\ ~enemyObj.diveAtPlayer
  /\ enemyObj.y = 50 * Px /\ enemyObj.timeOffScreen = 0

\* C34: after any sequence of moveLeft, moveRight, moveUp and moveDown, with
\* or without the speed boost, the player is inside the playfield:
\* 0 <= x <= 800 - width and 0 <= y <= 600 - height.
C34_PlayerInField ==
  playerObj.on =>
    /\ 0 <= playerObj.x /\ playerObj.x <= 800 * Px - playerObj.width
    /\ 0 <= playerObj.y /\ playerObj.y <= 600 * Px - playerObj.height

\* C34 witness: a boosted player was stopped in the top right corner
C34_Witness ==
  /\ playerObj.on /\ playerObj.speed > playerObj.baseSpeed
  /\ playerObj.x = 800 * Px - playerObj.width /\ playerObj.y = 0

\* C35: a status effect is switched on by its pickup (or by the hit), with
\* its expiry 5000 ms (2000 ms) after that call, also when it was already
\* active; update() switches it off exactly when the expiry time has passed,
\* and no other call changes it; speed is baseSpeed without the boost and
\* 1.5 * baseSpeed with it.
C35_StatusEffects ==
  [][playerObj.on =>
       LET p == playerObj
           q == playerObj'
           effect(flag, timer, call, ms) ==
             /\ q.op = call => q[flag] /\ q[timer] = q.now + ms
             /\ q.op = "update" =>
                  /\ q[flag] <=> (p[flag] /\ ~(p.now > p[timer]))
                  /\ q[timer] = IF q[flag] THEN p[timer] ELSE 0
             /\ q.op \notin {call, "update"} =>
                  q[flag] = p[flag] /\ q[timer] = p[timer]
             /\ q[flag] <=> q[timer] > 0
       IN /\ effect("hasShield", "shieldTimer", "shield", ShieldTime)
          /\ effect("hasSpreadShot", "spreadShotTimer", "spreadShot", ShieldTime)
          /\ effect("invulnerable", "invulnerableTimer", "makeInvulnerable",
                    InvulnerableMs)
          /\ q.op = "speed" => q.speedTimer = q.now + ShieldTime
          /\ q.op = "update" =>
               q.speedTimer = IF p.now > p.speedTimer THEN 0 ELSE p.speedTimer
          /\ q.op \notin {"speed", "update"} => q.speedTimer = p.speedTimer
          /\ q.speed = IF q.speedTimer > 0 THEN (q.baseSpeed * 3) \div 2
                       ELSE q.baseSpeed]_vars

\* C35 witness: an update at the very expiry time of a shield that was
\* picked up again leaves it active, with the speed boost over
C35_Witness ==
  /\ playerObj.on /\ playerObj.op = "update"
  /\ playerObj.hasShield /\ playerObj.shieldTimer = playerObj.now
  /\ playerObj.now > Epoch + ShieldTime
  /\ playerObj.speed = playerObj.baseSpeed /\ ~playerObj.invulnerable

\* C36: checkBulletCollision is symmetric in its arguments, is true exactly
\* when the two rectangles, each grown by 5 on all four edges, overlap with
\* positive area, that is when the gap between the original rectangles is
\* below 10 on both axes, and is true whenever Bullet.checkCollision is.
C36_BulletMargin ==
  collision.done =>
    LET a == collision.a
        b == collision.b
        grown(r) == [x |-> r.x - 5, y |-> r.y - 5,
                     width |-> r.width + 10, height |-> r.height + 10]
    IN /\ collision.marginAB = collision.marginBA
       /\ collision.marginAB
            <=> (OverlapWidth(grown(a), grown(b)) > 0
                   /\ OverlapHeight(grown(a), grown(b)) > 0)
       /\ collision.marginAB
            <=> (-OverlapWidth(a, b) < 10 /\ -OverlapHeight(a, b) < 10)
       /\ collision.bulletAB => collision.marginAB

\* C36 witness: two bullets 9 apart on x and 9 apart on y collide under the
\* margin and not under the plain test
C36_Witness ==
  /\ collision.done
  /\ collision.a.x = collision.b.x + collision.b.width + 9
  /\ collision.b.y = collision.a.y + collision.a.height + 9
  /\ collision.marginAB /\ ~collision.bulletAB

\* C37: every start of the grace window (mount, each run of the main game
\* effect, startNewGame) keeps the grace flag set for its full 3000 ms: while
\* the grace-expiry timer of a start has time left, the flag is set, so a
\* timer armed by an earlier start never clears the flag of a later one.
C37_GraceWindowKept ==
  (\E i \in DOMAIN timers :
      /\ timers[i].k \in {"graceMount", "graceMain", "graceNew"}
      /\ timers[i].rem > 0)
    => gameJustStartedRef

\* C38: pausing and resuming change nothing but isPaused: the render that
\* applies a change of isPaused alone (pause or resume) leaves the enemy
\* collection, the current wave index and the pending wave schedule as they
\* were.
C38_PauseKeepsGame ==
  [][(/\ rendered' # rendered
      /\ Deps(gs) = [rendered EXCEPT !.isPaused = ~@]
      /\ ~uiDirty)
       => /\ enemiesRef' = enemiesRef
          /\ currentWaveRef' = currentWaveRef
          /\ waveTimeoutRef' = waveTimeoutRef
          /\ SelectSeq(timers', LAMBDA t : t.k \in SpawnKinds \cup {"lastWave"})
               = SelectSeq(timers, LAMBDA t : t.k \in SpawnKinds \cup {"lastWave"})]_vars

\* C39: waveTimeoutRef is non-null exactly when a next-wave spawn timer is
\* pending: it is null again once the timer has fired without arming another
\* (after the last wave of a level was spawned).
C39_WaveRefMatchesSchedule ==
  waveTimeoutRef <=> (\E i \in DOMAIN timers : timers[i].k = "wave")

====
